---- MODULE Spec2Model ----
(***************************************************************************)
(* Model of the branch-office application backend: the session based       *)
(* access guard, the manager administration mutations, the GraphQL         *)
(* application mutation pipeline (update, soft delete, notes) with its     *)
(* audit history, the read queries with the cache-aside entry of           *)
(* fetchApplicationById, and the earlier REST resource /requests/<id>.     *)
(*                                                                         *)
(* Conventions.  Python None is the empty sequence and a present value v   *)
(* is <<v>>.  A Python str is a sequence of one-character strings, so      *)
(* that int(), str() and ilike are computed and not assumed.  The values   *)
(* of an audit dict are tagged with their Python type, since the code      *)
(* stores both ints and strs there.                                        *)
(***************************************************************************)
EXTENDS Integers, Sequences, FiniteSets, TLC

VARIABLES
    session,         \* flask session["user"]: None or <<[id, name, role]>>
    admins,          \* rows of the Admin table (sequence, query.first() takes the head)
    managers,        \* rows of the Manager table (set of records)
    nextManagerId,   \* next primary key of the Manager table
    applications,    \* committed rows of the Application table, by id
    appHistory,      \* committed rows of application_history, in commit order
    nextNoteId,      \* source of fresh uuid4 note ids
    cache,           \* redis hashes application:<id>:info, by id: None or <<entry>>
    requests,        \* committed rows of the REST Request table, by id
    requestHistory,  \* committed rows of the REST RequestHistory table
    restPending,     \* REST PUT requests between their two commits
    updating,        \* updateApplication requests between their read and their commit
    otherSession,    \* session["user"] the session store keeps for a second client
    response         \* outcome of the last handled request

vars == <<session, admins, managers, nextManagerId, applications, appHistory,
          nextNoteId, cache, requests, requestHistory, restPending, updating,
          otherSession, response>>

authVars  == <<session, admins, managers, nextManagerId>>
appVars   == <<applications, appHistory, nextNoteId, cache>>
restVars  == <<requests, requestHistory, restPending>>

-----------------------------------------------------------------------------
(* Bounds of the model *)

MaxManagers == 2      \* registrations of managers
MaxHistory  == 2      \* rows of each history table
MaxNotes    == 2      \* notes generated per run
MaxTime     == 1      \* distinct values of datetime.utcnow()
MaxInFlight == 1      \* REST PUT requests between their two commits
MaxOffset   == 2      \* rows a list query skips
MaxConcurrent == 2    \* updateApplication requests between read and commit

-----------------------------------------------------------------------------
(* Python values *)

None == <<>>
Some(v) == <<v>>
IsNone(o) == o = <<>>
Val(o) == o[1]

Digits == <<"0", "1", "2", "3", "4", "5", "6", "7", "8", "9">>

DigitSet == {Digits[i] : i \in 1..10}

DigitValue(c) == (CHOOSE i \in 1..10 : Digits[i] = c) - 1

\* a string int() accepts: a non-empty run of decimal digits
IsIntLiteral(s) == Len(s) > 0 /\ \A i \in 1..Len(s) : s[i] \in DigitSet

RECURSIVE PyInt(_)
\* int(s) for a string of decimal digits
PyInt(s) ==
    IF Len(s) = 0 THEN 0
    ELSE 10 * PyInt(SubSeq(s, 1, Len(s) - 1)) + DigitValue(s[Len(s)])

RECURSIVE PyStr(_)
\* str(n) for a natural number: canonical decimal digits, no leading zero
PyStr(n) ==
    IF n < 10 THEN <<Digits[n + 1]>>
    ELSE Append(PyStr(n \div 10), Digits[(n % 10) + 1])

\* tagged values of audit dicts and JSON payloads
IntV(n)  == [t |-> "int",  n |-> n, s |-> <<>>, l |-> <<>>]
StrV(s)  == [t |-> "str",  n |-> 0, s |-> s,    l |-> <<>>]
ListV(l) == [t |-> "list", n |-> 0, s |-> <<>>, l |-> l]
NoneV    == [t |-> "none", n |-> 0, s |-> <<>>, l |-> <<>>]

Range(f) == {f[i] : i \in DOMAIN f}

-----------------------------------------------------------------------------
(* Responses *)

NoItems == <<>>

\* the outcome of a request: the operation, the application or manager id
\* it named (0 when none), the result kind, the message, the returned
\* applications and the role of the caller's session when it was handled
Resp(op, id, kind, message, items) ==
    [op |-> op, id |-> id, kind |-> kind, message |-> message, items |-> items,
     counts |-> None,
     role |-> IF IsNone(session) THEN "" ELSE Val(session).role]

-----------------------------------------------------------------------------
(* Commits *)

\* what db.session.commit() does: None when it returns, else the text of
\* the exception it raises
CommitOutcomes == {None, Some(<<"connection reset">>), Some(<<"deadlock detected">>)}

\* what each mutation was doing, as its error message words it
Activity(op) ==
    CASE op = "updateApplication" -> "saving the application."
      [] op = "deleteApplication" -> "soft-deleting the application."
      [] op = "addNoteToApplication" -> "adding note to application."
      [] op = "removeNoteFromApplication" -> "removing note from application."
      [] op = "updateNoteFromApplication" -> "updating note from application."
      [] op = "registerManager" -> "registering manager."
      [] op = "deleteManager" -> "deleting manager."
      [] op = "updateManager" -> "updating manager."

\* a variant of InternalErrorMessage that puts the cause into the message
InternalErrorMessageWithCause(op, cause) ==
    <<"Internal server error while ", Activity(op)>> \o cause

\* the GraphQLError raised after db.session.rollback(): the cause goes to
\* the log only
InternalErrorMessage(op, cause) ==
    <<"Internal server error while ", Activity(op)>>

-----------------------------------------------------------------------------
(* Access guard: src/app/api/graphql/mutations/auth/auth_decorator.py *)

\* the role argument of login_required: None, a str or a list of str
RoleNone      == [kind |-> "none", str |-> "", list |-> <<>>]
RoleStr(r)    == [kind |-> "str",  str |-> r,  list |-> <<>>]
RoleList(l)   == [kind |-> "list", str |-> "", list |-> l]

\* a variant of RoleTruthy that takes every role argument for a requirement
RoleTruthyAlways(role) == TRUE

\* Python truthiness of the role argument
RoleTruthy(role) ==
    CASE role.kind = "none" -> FALSE
      [] role.kind = "str"  -> role.str # ""
      [] role.kind = "list" -> Len(role.list) > 0

AllowedRoles(role) == IF role.kind = "str" THEN <<role.str>> ELSE role.list

RECURSIVE JoinRoles(_)
\* ', '.join(allowed_roles), as the sequence of its pieces
JoinRoles(l) ==
    IF Len(l) = 0 THEN <<>>
    ELSE IF Len(l) = 1 THEN <<l[1]>>
    ELSE <<l[1], ", ">> \o JoinRoles(Tail(l))

GuardPass == [kind |-> "pass", message |-> <<>>]

\* a variant of LoginRequired that asks for a session only
LoginRequiredAnyRole(sess, role) ==
    IF IsNone(sess)
    THEN [kind |-> "Unauthenticated", message |-> <<"Authentication required.">>]
    ELSE GuardPass

\* the wrapper of login_required(role) applied to the session user
LoginRequired(sess, role) ==
    IF IsNone(sess)
    THEN [kind |-> "Unauthenticated", message |-> <<"Authentication required.">>]
    ELSE IF RoleTruthy(role) /\ Val(sess).role \notin Range(AllowedRoles(role))
         THEN [kind |-> "Forbidden",
               message |-> <<"Access requires role: ">> \o JoinRoles(AllowedRoles(role))]
         ELSE GuardPass

\* check_authorization of common_utils: the role, or an error without session
CheckAuthorization(sess) ==
    IF IsNone(sess)
    THEN [kind |-> "Unauthenticated",
          message |-> <<"Unauthorized access attempt - No session found.">>]
    ELSE GuardPass

-----------------------------------------------------------------------------
(* Passwords: src/app/api/graphql/mutations/auth/encryption_utils.py *)

\* AES-CBC under a fixed key with a random iv: an opaque envelope
EncryptPassword(p) == <<"aes">> \o p

\* the inverse of EncryptPassword
DecryptPassword(c) == Tail(c)

-----------------------------------------------------------------------------
(* Inputs of the authentication and manager mutations *)

AdminPassword == <<"root">>

Passwords == {<<"pw1">>, <<"pw2">>, AdminPassword}

ManagerNames == {<<"Ann">>, <<"Bob">>}

BranchNames == {<<"North">>, <<"South">>}

\* the username generated for the manager with primary key id (uuid4().hex[:8])
GeneratedUsername(id) == <<"u">> \o PyStr(id)

Usernames == {<<>>} \cup {GeneratedUsername(i) : i \in 1..(MaxManagers + 1)}

\* ID arguments as the client sends them: strings
ManagerIdInputs == {PyStr(i) : i \in 1..2} \cup {<<"x">>}

InitialManager ==
    [id |-> 1, username |-> GeneratedUsername(1), name |-> <<"Ann">>,
     password |-> EncryptPassword(<<"pw1">>), branch_name |-> <<"North">>]

AdminRow == [password |-> EncryptPassword(AdminPassword)]

AdminUser == [id |-> 0, name |-> <<"admin">>, role |-> "admin"]

ManagerUser(m) == [id |-> m.id, name |-> m.name, role |-> "manager"]

-----------------------------------------------------------------------------
(* Id validation and manager lookup: utils/common_utils.py, manager_utils.py *)

\* validate_id: int(id_value), or the invalid-format error
ValidateId(idValue) ==
    IF IsIntLiteral(idValue) THEN Some(PyInt(idValue)) ELSE None

\* get_manager_by_id: None for a falsy id, else the row with that id
GetManagerById(mid) ==
    IF mid = 0 THEN {} ELSE {m \in managers : m.id = mid}

-----------------------------------------------------------------------------
(* LoginAdmin.mutate: src/app/api/graphql/mutations/auth/auth_admin.py *)

\* a variant of LoginAdmin that starts the session before it compares
LoginAdminSessionFirst(password) ==
    /\ session' = Some(AdminUser)
    /\ response' = IF Len(admins) = 0 \/ DecryptPassword(Head(admins).password) # password
                   THEN Resp("loginAdmin", 0, "InvalidCredentials",
                             <<"Invalid credentials.">>, NoItems)
                   ELSE Resp("loginAdmin", 0, "ok", <<"Admin login successful">>, NoItems)
    /\ UNCHANGED <<admins, managers, nextManagerId, appVars, restVars, updating, otherSession>>

LoginAdmin(password) ==
    /\ IF Len(admins) = 0
       THEN /\ response' = Resp("loginAdmin", 0, "InvalidCredentials",
                                <<"Invalid credentials.">>, NoItems)
            /\ UNCHANGED session
       ELSE IF DecryptPassword(Head(admins).password) # password
            THEN /\ response' = Resp("loginAdmin", 0, "InvalidCredentials",
                                     <<"Invalid credentials.">>, NoItems)
                 /\ UNCHANGED session
            ELSE /\ session' = Some(AdminUser)
                 /\ response' = Resp("loginAdmin", 0, "ok",
                                     <<"Admin login successful">>, NoItems)
    /\ UNCHANGED <<admins, managers, nextManagerId, appVars, restVars, updating, otherSession>>

(* LoginManager.mutate and _fetch_manager_by_username: auth_manager.py *)

LoginManager(username, password) ==
    /\ IF Len(username) = 0
       THEN /\ response' = Resp("loginManager", 0, "ValueError",
                                <<"Username cannot be empty or null.">>, NoItems)
            /\ UNCHANGED session
       ELSE IF {m \in managers : m.username = username} = {}
            THEN /\ response' = Resp("loginManager", 0, "NotFound",
                                     <<"Manager not found.">>, NoItems)
                 /\ UNCHANGED session
            ELSE LET manager == CHOOSE m \in managers : m.username = username
                 IN  IF DecryptPassword(manager.password) # password
                     THEN /\ response' = Resp("loginManager", manager.id, "InvalidCredentials",
                               <<"Invalid credentials (password decryption error).">>, NoItems)
                          /\ UNCHANGED session
                     ELSE /\ session' = Some(ManagerUser(manager))
                          /\ response' = Resp("loginManager", manager.id, "ok", <<>>, NoItems)
    /\ UNCHANGED <<admins, managers, nextManagerId, appVars, restVars, updating, otherSession>>

\* a variant of LogoutManager that reports success and keeps the session
LogoutManagerKeepsSession ==
    /\ response' = Resp("logoutManager", 0, "ok", <<"Logout successful.">>, NoItems)
    /\ UNCHANGED <<authVars, appVars, restVars, updating, otherSession>>

(* LogoutManager.mutate: auth_manager.py *)

LogoutManager ==
    /\ IF ~IsNone(session)
       THEN /\ session' = None
            /\ response' = Resp("logoutManager", 0, "ok", <<"Logout successful.">>, NoItems)
       ELSE /\ UNCHANGED session
            /\ response' = Resp("logoutManager", 0, "NoSession",
                                <<"No active session found.">>, NoItems)
    /\ UNCHANGED <<admins, managers, nextManagerId, appVars, restVars, updating, otherSession>>

-----------------------------------------------------------------------------
(* Manager administration: auth_manager.py, mutations/manager.py *)

\* the response of a request the guard or a lookup refused
Refuse(op, id, err) ==
    /\ response' = Resp(op, id, err.kind, err.message, NoItems)
    /\ UNCHANGED <<authVars, appVars, restVars, updating, otherSession>>

\* RegisterManager.mutate under login_required(role="admin")
RegisterManager(name, password, branch, commit) ==
    LET guard == LoginRequired(session, RoleStr("admin")) IN
    IF guard # GuardPass THEN Refuse("registerManager", 0, guard)
    ELSE IF Len(name) = 0
    THEN Refuse("registerManager", 0,
                [kind |-> "ValidationError", message |-> <<"Manager name is required.">>])
    ELSE IF Len(password) = 0
    THEN Refuse("registerManager", 0,
                [kind |-> "ValidationError", message |-> <<"Manager password is required.">>])
    ELSE IF Len(branch) = 0
    THEN Refuse("registerManager", 0,
                [kind |-> "ValidationError", message |-> <<"Manager branch is required.">>])
    ELSE IF ~IsNone(commit)
    THEN Refuse("registerManager", 0,
                [kind |-> "InternalError",
                 message |-> InternalErrorMessage("registerManager", Val(commit))])
    ELSE /\ nextManagerId <= MaxManagers + 1
         /\ managers' = managers \cup
                {[id |-> nextManagerId, username |-> GeneratedUsername(nextManagerId),
                  name |-> name, password |-> EncryptPassword(password),
                  branch_name |-> branch]}
         /\ nextManagerId' = nextManagerId + 1
         /\ response' = Resp("registerManager", nextManagerId, "ok", <<>>, NoItems)
         /\ UNCHANGED <<session, admins, appVars, restVars, updating, otherSession>>

\* fetch_manager: the parsed id and the row, or the error of the lookup
FetchManager(idValue) ==
    IF IsNone(ValidateId(idValue))
    THEN [kind |-> "InvalidId", id |-> 0,
          message |-> <<"Invalid Manager ID format. It must be an integer.">>]
    ELSE IF GetManagerById(Val(ValidateId(idValue))) = {}
         THEN [kind |-> "NotFound", id |-> Val(ValidateId(idValue)),
               message |-> <<"Manager with ID ">> \o PyStr(Val(ValidateId(idValue)))
                                \o <<" not found.">>]
         ELSE [kind |-> "pass", id |-> Val(ValidateId(idValue)), message |-> <<>>]

\* DeleteManager.mutate under login_required(role="admin")
DeleteManager(idValue, commit) ==
    LET guard == LoginRequired(session, RoleStr("admin"))
        found == FetchManager(idValue)
    IN
    IF guard # GuardPass THEN Refuse("deleteManager", 0, guard)
    ELSE IF found.kind # "pass"
    THEN Refuse("deleteManager", found.id, [kind |-> found.kind, message |-> found.message])
    ELSE IF ~IsNone(commit)
    THEN Refuse("deleteManager", found.id,
                [kind |-> "InternalError",
                 message |-> InternalErrorMessage("deleteManager", Val(commit))])
    ELSE /\ managers' = {m \in managers : m.id # found.id}
         /\ response' = Resp("deleteManager", found.id, "ok", <<>>, NoItems)
         /\ UNCHANGED <<session, admins, nextManagerId, appVars, restVars, updating, otherSession>>

\* UpdateManager._update_manager: copy the supplied name and branch_name,
\* re-encrypt a non-empty password
UpdateManagerRow(m, input) ==
    [m EXCEPT !.name = IF IsNone(input.name) THEN @ ELSE Val(input.name),
              !.branch_name = IF IsNone(input.branch_name) THEN @ ELSE Val(input.branch_name),
              !.password = IF IsNone(input.password) \/ Val(input.password) = <<>>
                           THEN @ ELSE EncryptPassword(Val(input.password))]

\* UpdateManager.mutate under login_required(role=["admin"])
UpdateManager(input, commit) ==
    LET guard == LoginRequired(session, RoleList(<<"admin">>))
        found == FetchManager(input.id)
    IN
    IF guard # GuardPass THEN Refuse("updateManager", 0, guard)
    ELSE IF found.kind # "pass"
    THEN Refuse("updateManager", found.id, [kind |-> found.kind, message |-> found.message])
    ELSE IF ~IsNone(commit)
    THEN Refuse("updateManager", found.id,
                [kind |-> "InternalError",
                 message |-> InternalErrorMessage("updateManager", Val(commit))])
    ELSE /\ managers' = {IF m.id = found.id THEN UpdateManagerRow(m, input) ELSE m
                            : m \in managers}
         /\ response' = Resp("updateManager", found.id, "ok", <<>>, NoItems)
         /\ UNCHANGED <<session, admins, nextManagerId, appVars, restVars, updating, otherSession>>

\* the payloads of updateManager the model draws
UpdateManagerInputs ==
    [id : ManagerIdInputs,
     name : {None, Some(<<"Bob">>)},
     branch_name : {None, Some(<<"South">>)},
     password : {None, Some(<<"pw2">>)}]

\* a resolver guarded by login_required(role) whose body only returns
GuardedOperation(role) ==
    LET guard == LoginRequired(session, role) IN
    /\ response' = IF guard # GuardPass
                   THEN Resp("guarded", 0, guard.kind, guard.message, NoItems)
                   ELSE Resp("guarded", 0, "ok", <<>>, NoItems)
    /\ UNCHANGED <<authVars, appVars, restVars, updating, otherSession>>

\* flask_session keeps one session per client in redis: the next request
\* carries the cookie of the other client and is handled with its session
SwitchClient ==
    /\ session' = otherSession
    /\ otherSession' = session
    /\ UNCHANGED <<admins, managers, nextManagerId, appVars, restVars, updating, response>>

\* the role arguments the model draws: unset, empty, and the ones in use
RoleArguments ==
    {RoleNone, RoleStr(""), RoleList(<<>>), RoleStr("admin"), RoleStr("manager"),
     RoleList(<<"admin">>), RoleList(<<"admin", "manager">>)}

-----------------------------------------------------------------------------
(* The Application table: src/app/models.py, and the fields the later      *)
(* revisions of the resolvers read (deleted_by, note dicts)                *)

\* the tracked fields, in the order UpdateApplication walks them
TrackedFields == <<"branch_id", "client_name", "phone_number", "product", "status">>

StringFields == <<"client_name", "phone_number", "product", "status">>

ApplicationStatuses == {<<"in-progress">>, <<"closed">>, <<"transferred">>}

\* the name of a branch row, by its primary key
BranchNameOf(branchId) == IF branchId = 1 THEN <<"North">> ELSE <<"South">>

InitialApplication ==
    [id |-> 1, branch_id |-> 1, client_name |-> <<"I", "v", "a", "n", "o", "v">>,
     phone_number |-> <<"7", "0", "1">>, product |-> <<"loan">>,
     status |-> <<"in-progress">>, notes |-> <<>>, created_at |-> 0,
     is_deleted |-> FALSE, deleted_at |-> None, deleted_by |-> None]

SecondApplication ==
    [id |-> 2, branch_id |-> 2, client_name |-> <<"P", "e", "t", "r", "o", "v">>,
     phone_number |-> <<"7", "0", "2">>, product |-> <<"card">>,
     status |-> <<"closed">>, notes |-> <<>>, created_at |-> 0,
     is_deleted |-> FALSE, deleted_at |-> None, deleted_by |-> None]

\* the rows of the Application table the model starts from
InitialApplications ==
    [i \in {1, 2} |-> IF i = 1 THEN InitialApplication ELSE SecondApplication]

\* ID arguments as the client sends them: known, unknown and malformed
ApplicationIdInputs == {<<"1">>, <<"0", "1">>, <<"2">>, <<"9">>, <<"x">>}

Times == 1..MaxTime

-----------------------------------------------------------------------------
(* Lookup: src/app/api/graphql/utils/application_utils.py *)

\* a variant of get_application_by_id that shows deleted rows to every role
GetApplicationByIdAnyRole(sess, id) ==
    {a \in Range(applications) : a.id = id}

\* get_application_by_id: the rows with this id the role may see
GetApplicationById(sess, id) ==
    {a \in Range(applications) :
        /\ a.id = id
        /\ (Val(sess).role = "manager" => ~a.is_deleted)}

\* fetch_application: validate_id, check_authorization, role-filtered lookup
FetchApplication(sess, idValue) ==
    IF IsNone(ValidateId(idValue))
    THEN [kind |-> "InvalidId", id |-> 0,
          message |-> <<"Invalid Application ID format. It must be an integer.">>]
    ELSE IF CheckAuthorization(sess) # GuardPass
    THEN [kind |-> CheckAuthorization(sess).kind, id |-> Val(ValidateId(idValue)),
          message |-> CheckAuthorization(sess).message]
    ELSE IF GetApplicationById(sess, Val(ValidateId(idValue))) = {}
    THEN [kind |-> "NotFound", id |-> Val(ValidateId(idValue)),
          message |-> <<"Application with ID ">> \o PyStr(Val(ValidateId(idValue)))
                          \o <<" not found.">>]
    ELSE [kind |-> "pass", id |-> Val(ValidateId(idValue)), message |-> <<>>]

\* build_application_response: the fields of the row, as returned
BuildApplicationResponse(a, history) ==
    [id |-> a.id, branch_id |-> a.branch_id, client_name |-> a.client_name,
     phone_number |-> a.phone_number, product |-> a.product, status |-> a.status,
     notes |-> a.notes, created_at |-> a.created_at, is_deleted |-> a.is_deleted,
     deleted_at |-> a.deleted_at, deleted_by |-> a.deleted_by,
     history |-> SelectSeq(history, LAMBDA h : h.application_id = a.id)]

-----------------------------------------------------------------------------
(* UpdateApplication: src/app/api/graphql/mutations/application.py *)

\* the value of a tracked field of a row, tagged with its Python type
TrackedValue(a, field) ==
    IF field = "branch_id" THEN IntV(a.branch_id) ELSE StrV(a[field])

\* original_values: the snapshot mutate takes before it updates the row
OriginalValues(a) ==
    [f \in Range(TrackedFields) |-> TrackedValue(a, f)]

\* a variant of UpdateApplicationRow that puts the column default in the
\* place of a status the input does not carry
UpdateApplicationRowDefaulting(a, input) ==
    [a EXCEPT
        !.branch_id    = IF IsNone(input.branch_id) THEN @ ELSE PyInt(Val(input.branch_id)),
        !.client_name  = IF IsNone(input.client_name) THEN @ ELSE Val(input.client_name),
        !.phone_number = IF IsNone(input.phone_number) THEN @ ELSE Val(input.phone_number),
        !.product      = IF IsNone(input.product) THEN @ ELSE Val(input.product),
        !.status       = IF IsNone(input.status) THEN <<"in-progress">> ELSE Val(input.status)]

\* _update_application: int() of a supplied branch_id, and every supplied
\* string field copied onto the row
UpdateApplicationRow(a, input) ==
    [a EXCEPT
        !.branch_id    = IF IsNone(input.branch_id) THEN @ ELSE PyInt(Val(input.branch_id)),
        !.client_name  = IF IsNone(input.client_name) THEN @ ELSE Val(input.client_name),
        !.phone_number = IF IsNone(input.phone_number) THEN @ ELSE Val(input.phone_number),
        !.product      = IF IsNone(input.product) THEN @ ELSE Val(input.product),
        !.status       = IF IsNone(input.status) THEN @ ELSE Val(input.status)]

\* the test of _add_updated_field_to_history for the branch id: the
\* supplied string against str() of the original value
BranchIdChanged(input, original) ==
    ~IsNone(input.branch_id) /\ Val(input.branch_id) # PyStr(original["branch_id"].n)

\* the test of _add_updated_field_to_history for a string field
StringFieldChanged(input, original, field) ==
    ~IsNone(input[field]) /\ Val(input[field]) # original[field].s

\* updated_fields: the fields the diff reports, in the order it walks them
UpdatedFields(input, original) ==
    (IF BranchIdChanged(input, original) THEN <<"branch_id">> ELSE <<>>)
    \o SelectSeq(StringFields, LAMBDA f : StringFieldChanged(input, original, f))

\* new_values: the supplied values of the reported fields, as supplied
NewValues(input, original) ==
    [f \in Range(UpdatedFields(input, original)) |->
        StrV(Val(input[f]))]

\* the history row of _add_updated_field_to_history; previous_values and
\* new_values are the dicts whose str() the row stores
HistoryEntry(a, input, original) ==
    [application_id |-> a.id,
     updated_fields |-> UpdatedFields(input, original),
     previous_values |-> [f \in Range(UpdatedFields(input, original)) |-> original[f]],
     new_values |-> NewValues(input, original)]

\* the rows db.session.add stages: none when the diff is empty
StagedHistory(a, input, original) ==
    IF UpdatedFields(input, original) = <<>> THEN <<>>
    ELSE <<HistoryEntry(a, input, original)>>

\* the response of a request that failed before or at its commit: nothing
\* of the unit of work reaches the store
Fail(op, id, kind, message) ==
    /\ response' = Resp(op, id, kind, message, NoItems)
    /\ UNCHANGED <<authVars, appVars, restVars, updating, otherSession>>

\* what db.session.commit() does with the updated row.  The resolver copies
\* the status string onto the row unchecked and the column is
\* Enum('in-progress', 'closed', 'transferred') without validate_strings,
\* so a status outside the enum reaches the store: a store with a native
\* enum type (PostgreSQL, the default and production URI) refuses the
\* statement, a store without one (SQLite, the testing URI) keeps the string
RowCommitOutcomes(row, commit) ==
    IF ~IsNone(commit) \/ row.status \in ApplicationStatuses
    THEN {commit}
    ELSE {None, Some(<<"invalid input value for enum application_status">>)}

\* UpdateApplication.mutate
UpdateApplication(input, commit) ==
    LET found == FetchApplication(session, input.id) IN
    IF found.kind # "pass"
    THEN Fail("updateApplication", found.id, found.kind, found.message)
    ELSE IF ~IsNone(input.branch_id) /\ ~IsIntLiteral(Val(input.branch_id))
    THEN Fail("updateApplication", found.id, "ValueError",
              <<"invalid literal for int()">>)
    ELSE LET application == applications[found.id]
             original == OriginalValues(application)
             updated == UpdateApplicationRow(application, input)
             staged == StagedHistory(updated, input, original)
         IN  \E outcome \in RowCommitOutcomes(updated, commit) :
                 IF ~IsNone(outcome)
                 THEN Fail("updateApplication", found.id, "InternalError",
                           InternalErrorMessage("updateApplication", Val(outcome)))
                 ELSE /\ Len(appHistory) + Len(staged) <= MaxHistory
                      /\ applications' = [applications EXCEPT ![found.id] = updated]
                      /\ appHistory' = appHistory \o staged
                      /\ response' = Resp("updateApplication", found.id, "ok", <<>>,
                                          <<BuildApplicationResponse(updated, appHistory')>>)
                      /\ UNCHANGED <<authVars, nextNoteId, cache, restVars, updating, otherSession>>

\* UpdateApplication.mutate up to its snapshot, for a request that runs
\* beside others: fetch_application loads the row into the session of the
\* request, and original_values is taken from what was loaded
BeginUpdate(input) ==
    LET found == FetchApplication(session, input.id) IN
    IF found.kind # "pass"
    THEN Fail("updateApplication", found.id, found.kind, found.message)
    ELSE /\ Len(updating) < MaxConcurrent
         /\ updating' = Append(updating, [input |-> input, loaded |-> applications[found.id],
                                          role |-> Val(session).role])
         /\ UNCHANGED <<authVars, appVars, restVars, response, otherSession>>

\* the row the UPDATE of a flush leaves: the columns whose value the request
\* changed on its loaded object are written, the others are as committed
FlushedRow(current, loaded, updated) ==
    [f \in DOMAIN current |-> IF updated[f] # loaded[f] THEN updated[f] ELSE current[f]]

\* the in-flight requests without the k-th
WithoutRequest(k) == SubSeq(updating, 1, k - 1) \o SubSeq(updating, k + 1, Len(updating))

\* the rest of UpdateApplication.mutate for the k-th request in flight:
\* _update_application and _add_updated_field_to_history on the loaded
\* object and its snapshot, then the commit
FinishUpdate(k, commit) ==
    /\ k \in DOMAIN updating
    /\ LET input == updating[k].input
           application == updating[k].loaded
           original == OriginalValues(application)
       IN  IF ~IsNone(input.branch_id) /\ ~IsIntLiteral(Val(input.branch_id))
           THEN /\ response' = [Resp("updateApplication", application.id, "ValueError",
                                     <<"invalid literal for int()">>, NoItems)
                                   EXCEPT !.role = updating[k].role]
                /\ updating' = WithoutRequest(k)
                /\ UNCHANGED <<authVars, appVars, restVars, otherSession>>
           ELSE LET updated == UpdateApplicationRow(application, input)
                    staged == StagedHistory(updated, input, original)
                    written == FlushedRow(applications[application.id], application, updated)
                IN  \E outcome \in RowCommitOutcomes(updated, commit) :
                        IF ~IsNone(outcome)
                        THEN /\ response' =
                                    [Resp("updateApplication", application.id, "InternalError",
                                          InternalErrorMessage("updateApplication", Val(outcome)),
                                          NoItems)
                                       EXCEPT !.role = updating[k].role]
                             /\ updating' = WithoutRequest(k)
                             /\ UNCHANGED <<authVars, appVars, restVars, otherSession>>
                        ELSE /\ Len(appHistory) + Len(staged) <= MaxHistory
                             /\ applications' = [applications EXCEPT ![application.id] = written]
                             /\ appHistory' = appHistory \o staged
                             /\ response' =
                                    [Resp("updateApplication", application.id, "ok", <<>>,
                                          <<BuildApplicationResponse(written, appHistory')>>)
                                       EXCEPT !.role = updating[k].role]
                             /\ updating' = WithoutRequest(k)
                             /\ UNCHANGED <<authVars, nextNoteId, cache, restVars, otherSession>>

\* a variant of SoftDelete that sets the flag and leaves the timestamp
SoftDeleteFlagOnly(a, now) == [a EXCEPT !.is_deleted = TRUE]

\* a variant of SoftDelete that stamps the row and leaves the flag
SoftDeleteTimestampOnly(a, now) == [a EXCEPT !.deleted_at = Some(now)]

\* the soft delete DeleteApplication.mutate applies to the row
SoftDelete(a, now) == [a EXCEPT !.deleted_at = Some(now), !.is_deleted = TRUE]

\* a variant of DeleteApplication that drops the cache entry of the row
DeleteApplicationInvalidating(idValue, now, commit) ==
    LET found == FetchApplication(session, idValue) IN
    IF found.kind # "pass"
    THEN Fail("deleteApplication", found.id, found.kind, found.message)
    ELSE IF ~IsNone(commit)
    THEN Fail("deleteApplication", found.id, "InternalError",
              InternalErrorMessage("deleteApplication", Val(commit)))
    ELSE /\ applications' = [applications EXCEPT ![found.id] = SoftDelete(@, now)]
         /\ cache' = [cache EXCEPT ![PyStr(found.id)] = None]
         /\ response' = Resp("deleteApplication", found.id, "ok",
                             <<"Application ">> \o idValue \o <<" soft-deleted">>, NoItems)
         /\ UNCHANGED <<authVars, appHistory, nextNoteId, restVars, updating, otherSession>>

\* DeleteApplication.mutate
DeleteApplication(idValue, now, commit) ==
    LET found == FetchApplication(session, idValue) IN
    IF found.kind # "pass"
    THEN Fail("deleteApplication", found.id, found.kind, found.message)
    ELSE IF ~IsNone(commit)
    THEN Fail("deleteApplication", found.id, "InternalError",
              InternalErrorMessage("deleteApplication", Val(commit)))
    ELSE /\ applications' = [applications EXCEPT ![found.id] = SoftDelete(@, now)]
         /\ response' = Resp("deleteApplication", found.id, "ok",
                             <<"Application ">> \o idValue \o <<" soft-deleted">>, NoItems)
         /\ UNCHANGED <<authVars, appHistory, nextNoteId, cache, restVars, updating, otherSession>>

-----------------------------------------------------------------------------
(* Note mutations: src/app/api/graphql/mutations/note.py *)

\* str(uuid.uuid4()): a token no earlier note carries
NoteId(k) == <<"n">> \o PyStr(k)

NoteIdInputs == {NoteId(k) : k \in 1..(MaxNotes + 1)}

NoteTexts == {<<"call back">>, <<"docs sent">>}

NoteMutationRoles == RoleList(<<"admin", "manager">>)

\* the dict AddNoteToApplication.mutate builds for the note
NewNote(id, text, now, user) ==
    [id |-> id, text |-> text, timestamp |-> now, is_updated |-> FALSE,
     created_by |-> user, updated_by |-> None]

\* a variant of AppendNote that puts the note in front
AppendNoteInFront(notes, note) == <<note>> \o notes

\* application.notes.append(new_note)
AppendNote(notes, note) == Append(notes, note)

\* AddNoteToApplication.mutate
AddNoteToApplication(idValue, text, now, commit) ==
    LET guard == LoginRequired(session, NoteMutationRoles)
        found == FetchApplication(session, idValue)
    IN
    IF guard # GuardPass
    THEN Fail("addNoteToApplication", 0, guard.kind, guard.message)
    ELSE IF found.kind # "pass"
    THEN Fail("addNoteToApplication", found.id, found.kind, found.message)
    ELSE IF ~IsNone(commit)
    THEN Fail("addNoteToApplication", found.id, "InternalError",
              InternalErrorMessage("addNoteToApplication", Val(commit)))
    ELSE LET new_note == NewNote(NoteId(nextNoteId), text, now, Val(session).name)
             updated == [applications[found.id] EXCEPT !.notes = AppendNote(@, new_note)]
         IN  /\ nextNoteId <= MaxNotes
             /\ applications' = [applications EXCEPT ![found.id] = updated]
             /\ nextNoteId' = nextNoteId + 1
             /\ response' = Resp("addNoteToApplication", found.id, "ok", <<>>,
                                 <<BuildApplicationResponse(updated, appHistory)>>)
             /\ UNCHANGED <<authVars, appHistory, cache, restVars, updating, otherSession>>

\* a variant of RemoveNote that drops the note of the id and every later one
RemoveNoteAndLater(notes, noteId) ==
    SelectSeq(notes, LAMBDA n : \A i \in DOMAIN notes :
                                   notes[i].id = noteId => \E j \in 1..(i - 1) : notes[j] = n)

\* a variant of RemoveNote that drops the oldest note whatever its id
RemoveOldestNote(notes, noteId) == IF notes = <<>> THEN notes ELSE Tail(notes)

\* RemoveNoteFromApplication._remove_note: every note but those with the id
RemoveNote(notes, noteId) == SelectSeq(notes, LAMBDA n : n.id # noteId)

\* RemoveNoteFromApplication.mutate
RemoveNoteFromApplication(idValue, noteId, commit) ==
    LET guard == LoginRequired(session, NoteMutationRoles)
        found == FetchApplication(session, idValue)
    IN
    IF guard # GuardPass
    THEN Fail("removeNoteFromApplication", 0, guard.kind, guard.message)
    ELSE IF found.kind # "pass"
    THEN Fail("removeNoteFromApplication", found.id, found.kind, found.message)
    ELSE IF \A i \in 1..Len(applications[found.id].notes) :
                applications[found.id].notes[i].id # noteId
    THEN Fail("removeNoteFromApplication", found.id, "NotFound",
              <<"Note with ID ">> \o noteId \o <<" not found in application ">>
                  \o PyStr(found.id) \o <<".">>)
    ELSE IF ~IsNone(commit)
    THEN Fail("removeNoteFromApplication", found.id, "InternalError",
              InternalErrorMessage("removeNoteFromApplication", Val(commit)))
    ELSE LET updated == [applications[found.id] EXCEPT !.notes = RemoveNote(@, noteId)]
         IN  /\ applications' = [applications EXCEPT ![found.id] = updated]
             /\ response' = Resp("removeNoteFromApplication", found.id, "ok", <<>>,
                                 <<BuildApplicationResponse(updated, appHistory)>>)
             /\ UNCHANGED <<authVars, appHistory, nextNoteId, cache, restVars, updating, otherSession>>

\* a variant of UpdateNote that rewrites every note of the sequence
UpdateEveryNote(notes, noteId, text, user) ==
    [i \in DOMAIN notes |-> [notes[i] EXCEPT !.text = text, !.is_updated = TRUE,
                                             !.updated_by = Some(user)]]

\* a variant of UpdateNote that flips the flag instead of setting it
UpdateNoteFlippingFlag(notes, noteId, text, user) ==
    [i \in DOMAIN notes |->
        IF notes[i].id = noteId
        THEN [notes[i] EXCEPT !.text = text, !.is_updated = ~@, !.updated_by = Some(user)]
        ELSE notes[i]]

\* UpdateNoteFromApplication._update_note: the first note with the id gets
\* the text, the flag and the editor
UpdateNote(notes, noteId, text, user) ==
    LET k == CHOOSE i \in 1..Len(notes) :
                 /\ notes[i].id = noteId
                 /\ \A j \in 1..(i - 1) : notes[j].id # noteId
    IN  [notes EXCEPT ![k] = [@ EXCEPT !.text = text, !.is_updated = TRUE,
                                       !.updated_by = Some(user)]]

\* UpdateNoteFromApplication.mutate
UpdateNoteFromApplication(idValue, noteId, text, commit) ==
    LET guard == LoginRequired(session, NoteMutationRoles)
        found == FetchApplication(session, idValue)
    IN
    IF guard # GuardPass
    THEN Fail("updateNoteFromApplication", 0, guard.kind, guard.message)
    ELSE IF found.kind # "pass"
    THEN Fail("updateNoteFromApplication", found.id, found.kind, found.message)
    ELSE IF \A i \in 1..Len(applications[found.id].notes) :
                applications[found.id].notes[i].id # noteId
    THEN Fail("updateNoteFromApplication", found.id, "NotFound",
              <<"Note with ID ">> \o noteId \o <<" not found in application ">>
                  \o PyStr(found.id) \o <<".">>)
    ELSE IF ~IsNone(commit)
    THEN Fail("updateNoteFromApplication", found.id, "InternalError",
              InternalErrorMessage("updateNoteFromApplication", Val(commit)))
    ELSE LET updated == [applications[found.id] EXCEPT
                            !.notes = UpdateNote(@, noteId, text, Val(session).name)]
         IN  /\ applications' = [applications EXCEPT ![found.id] = updated]
             /\ response' = Resp("updateNoteFromApplication", found.id, "ok", <<>>,
                                 <<BuildApplicationResponse(updated, appHistory)>>)
             /\ UNCHANGED <<authVars, appHistory, nextNoteId, cache, restVars, updating, otherSession>>

-----------------------------------------------------------------------------
(* Strings: ordering and ILIKE *)

\* the characters of the model in code point order
Alphabet ==
    <<"%", "-", "0", "1", "2", "3", "4", "5", "6", "7", "8", "9",
      "A", "B", "I", "P", "_", "a", "b", "e", "i", "n", "o", "p", "r", "t", "v">>

CharCode(c) == CHOOSE i \in 1..Len(Alphabet) : Alphabet[i] = c

\* lower() of a character
LowerChar(c) ==
    CASE c = "A" -> "a"
      [] c = "B" -> "b"
      [] c = "I" -> "i"
      [] c = "P" -> "p"
      [] OTHER -> c

RECURSIVE StrLess(_, _)
\* a < b for strings, character by character
StrLess(a, b) ==
    IF Len(b) = 0 THEN FALSE
    ELSE IF Len(a) = 0 THEN TRUE
    ELSE IF a[1] = b[1] THEN StrLess(Tail(a), Tail(b))
    ELSE CharCode(a[1]) < CharCode(b[1])

RECURSIVE Like(_, _)
\* text ILIKE pattern: % matches any run, _ any one character, the rest
\* compares in lower case
Like(pattern, text) ==
    IF Len(pattern) = 0 THEN Len(text) = 0
    ELSE IF pattern[1] = "%"
         THEN \/ Like(Tail(pattern), text)
              \/ (Len(text) > 0 /\ Like(pattern, Tail(text)))
    ELSE IF Len(text) = 0 THEN FALSE
    ELSE /\ (pattern[1] = "_" \/ LowerChar(pattern[1]) = LowerChar(text[1]))
         /\ Like(Tail(pattern), Tail(text))

-----------------------------------------------------------------------------
(* Queries: src/app/api/graphql/queries/all_applications.py *)

\* _apply_filters: branch name and status, each when truthy
ApplyFilters(rows, filter) ==
    {a \in rows :
        /\ (IsNone(filter.branch_name) \/ Val(filter.branch_name) = <<>>
            \/ BranchNameOf(a.branch_id) = Val(filter.branch_name))
        /\ (IsNone(filter.status) \/ Val(filter.status) = <<>>
            \/ a.status = Val(filter.status))}

\* _apply_search: phone_number ILIKE %search%
ApplySearch(rows, search) ==
    {a \in rows : Like(<<"%">> \o search \o <<"%">>, a.phone_number)}

\* the attributes of the model a sort field may name
SortableFields == {"id", "client_name"}

\* a variant of SortKeys that stops at the first field the model lacks
SortKeysUntilUnknown(sort) ==
    IF \A i \in DOMAIN sort : sort[i].field \in SortableFields
    THEN sort
    ELSE SubSeq(sort, 1, (CHOOSE i \in DOMAIN sort :
                              /\ sort[i].field \notin SortableFields
                              /\ \A j \in 1..(i - 1) : sort[j].field \in SortableFields) - 1)

\* _apply_sort: the sort items whose field the model has
SortKeys(sort) == SelectSeq(sort, LAMBDA k : k.field \in SortableFields)

\* a sorts strictly before b under one key
KeyLess(a, b, key) ==
    LET lt == IF key.field = "id" THEN a.id < b.id
              ELSE StrLess(a.client_name, b.client_name)
        gt == IF key.field = "id" THEN b.id < a.id
              ELSE StrLess(b.client_name, a.client_name)
    IN  IF key.direction = "DESC" THEN gt ELSE lt

RECURSIVE RowBefore(_, _, _)
\* a sorts strictly before b under ORDER BY keys
RowBefore(a, b, keys) ==
    IF Len(keys) = 0 THEN FALSE
    ELSE \/ KeyLess(a, b, keys[1])
         \/ (~KeyLess(b, a, keys[1]) /\ RowBefore(a, b, Tail(keys)))

\* the orders in which the store may return rows under ORDER BY keys
Orderings(rows, keys) ==
    {q \in [1..Cardinality(rows) -> rows] :
        /\ \A i, j \in 1..Cardinality(rows) : i # j => q[i] # q[j]
        /\ \A i, j \in 1..Cardinality(rows) : i < j => ~RowBefore(q[j], q[i], keys)}

\* _apply_query_operations: filter and search when truthy, then the
\* supplied sort or ORDER BY id
QueryRows(rows, filter, search) ==
    LET filtered == IF IsNone(filter) THEN rows ELSE ApplyFilters(rows, Val(filter))
    IN  IF IsNone(search) \/ Val(search) = <<>> THEN filtered
        ELSE ApplySearch(filtered, Val(search))

QueryKeys(sort) ==
    IF IsNone(sort) \/ Val(sort) = <<>>
    THEN <<[field |-> "id", direction |-> "ASC"]>>
    ELSE SortKeys(Val(sort))

\* query.offset(offset).limit(first)
Page(q, first, offset) ==
    IF offset >= Len(q) THEN <<>>
    ELSE SubSeq(q, offset + 1, IF offset + first < Len(q) THEN offset + first ELSE Len(q))

\* _get_total_status_counts: counts over the table, by status
TotalStatusCounts ==
    [total |-> Cardinality(Range(applications)),
     closed |-> Cardinality({a \in Range(applications) : a.status = <<"closed">>}),
     transferred |-> Cardinality({a \in Range(applications) : a.status = <<"transferred">>}),
     in_progress |-> Cardinality({a \in Range(applications) : a.status = <<"in-progress">>})]

\* _get_total_branch_counts: group by branch over the query it is given
TotalBranchCounts(rows) ==
    {[branch |-> BranchNameOf(b), count |-> Cardinality({a \in rows : a.branch_id = b})]
        : b \in {a.branch_id : a \in rows}}

Responses(q) == [i \in 1..Len(q) |-> BuildApplicationResponse(q[i], appHistory)]

\* resolve_fetch_all_applications under login_required(["admin", "manager"])
FetchAllApplications(filter, sort, search, first, offset) ==
    LET guard == LoginRequired(session, RoleList(<<"admin", "manager">>))
        base == {a \in Range(applications) : ~a.is_deleted}
        rows == QueryRows(base, filter, search)
    IN
    IF guard # GuardPass
    THEN Fail("fetchAllApplications", 0, guard.kind, guard.message)
    ELSE /\ \E q \in Orderings(rows, QueryKeys(sort)) :
              response' =
                IF Page(q, first, offset) = <<>>
                THEN Resp("fetchAllApplications", 0, "ok", <<>>, NoItems)
                ELSE [Resp("fetchAllApplications", 0, "ok", <<>>,
                           Responses(Page(q, first, offset)))
                        EXCEPT !.counts = Some([status |-> TotalStatusCounts,
                                                branches |-> TotalBranchCounts(base)])]
         /\ UNCHANGED <<authVars, appVars, restVars, updating, otherSession>>

\* resolve_fetch_deleted_applications under login_required("admin"); the
\* field declares no filter argument
FetchDeletedApplications(sort, search, first, offset) ==
    LET guard == LoginRequired(session, RoleStr("admin"))
        base == {a \in Range(applications) : a.is_deleted}
        rows == QueryRows(base, None, search)
    IN
    IF guard # GuardPass
    THEN Fail("fetchDeletedApplications", 0, guard.kind, guard.message)
    ELSE /\ \E q \in Orderings(rows, QueryKeys(sort)) :
              response' = Resp("fetchDeletedApplications", 0, "ok", <<>>,
                               Responses(Page(q, first, offset)))
         /\ UNCHANGED <<authVars, appVars, restVars, updating, otherSession>>

-----------------------------------------------------------------------------
(* fetchApplicationById and its cache entry:                               *)
(* src/app/api/graphql/queries/application.py, utils/cache_utils.py        *)

\* the suffix of the redis key application:<id>:info
CacheKey(id) == PyStr(id)

\* cache_application_info: the hash stored for a row, the fields of
\* build_application_response
CacheEntry(a) == BuildApplicationResponse(a, appHistory)

\* resolve_fetch_application_by_id under login_required(["admin", "manager"]).
\* helper: whether the helper of cache_utils the request calls returns
\* (deserialize_application_info on a hit, cache_application_info on a
\* miss).  Both depend on the Application model and on the encoding of the
\* redis client: cache_application_info iterates the row it is given and
\* hands redis the raw column values, deserialize_application_info reads
\* the reply of hgetall by a str key.  When the helper raises, the request
\* ends with that error and the cache is as it was.
FetchApplicationById(idValue, helper) ==
    LET guard == LoginRequired(session, RoleList(<<"admin", "manager">>))
        found == FetchApplication(session, idValue)
    IN
    IF guard # GuardPass
    THEN Fail("fetchApplicationById", 0, guard.kind, guard.message)
    ELSE IF ~IsNone(cache[idValue])
    THEN IF ~helper
         THEN Fail("fetchApplicationById", Val(cache[idValue]).id, "KeyError",
                   <<"created_at">>)
         ELSE /\ response' = Resp("fetchApplicationById",
                                  Val(cache[idValue]).id, "ok", <<"cache hit">>,
                                  <<Val(cache[idValue])>>)
              /\ UNCHANGED <<authVars, appVars, restVars, updating, otherSession>>
    ELSE IF found.kind # "pass"
    THEN Fail("fetchApplicationById", found.id, found.kind, found.message)
    ELSE IF ~helper
    THEN Fail("fetchApplicationById", found.id, "TypeError",
              <<"object is not iterable">>)
    ELSE /\ cache' = [cache EXCEPT ![CacheKey(found.id)] =
                          Some(CacheEntry(applications[found.id]))]
         /\ response' = Resp("fetchApplicationById", found.id, "ok", <<>>,
                             <<BuildApplicationResponse(applications[found.id], appHistory)>>)
         /\ UNCHANGED <<authVars, applications, appHistory, nextNoteId, restVars, updating, otherSession>>

\* redis expires the hash when its ttl (3600 s) has run out
CacheExpire(key) ==
    /\ ~IsNone(cache[key])
    /\ cache' = [cache EXCEPT ![key] = None]
    /\ response' = Resp("cacheExpire", 0, "ok", <<>>, NoItems)
    /\ UNCHANGED <<authVars, applications, appHistory, nextNoteId, restVars, updating, otherSession>>

-----------------------------------------------------------------------------
(* REST resource /requests/<id>: src/app/api/resources/request.py *)

\* the fields _update_request walks, in its order
RequestFields == <<"client_name", "phone_number", "branch_id", "product", "status">>

InitialRequest ==
    [id |-> 1, client_name |-> <<"I", "v", "a", "n", "o", "v">>, phone_number |-> <<"7", "0", "1">>,
     branch_id |-> 1, product |-> <<"loan">>, status |-> <<"in-progress">>,
     notes |-> <<>>]

\* the value of a column of a Request row, tagged with its Python type
RequestValue(r, field) ==
    CASE field = "branch_id" -> IntV(r.branch_id)
      [] field = "notes" -> ListV(r.notes)
      [] OTHER -> StrV(r[field])

\* _get_current_values: all six columns of the row
GetCurrentValues(r) ==
    [f \in Range(RequestFields) \cup {"notes"} |-> RequestValue(r, f)]

\* new_data.get(field): the JSON value, None when the key is absent
DataGet(data, field) == data[field]

\* the test of _update_request: a value is supplied and differs from the column
RequestFieldChanged(r, data, field) ==
    ~IsNone(DataGet(data, field)) /\ RequestValue(r, field) # Val(DataGet(data, field))

\* _update_request: the changed fields in order
RequestUpdatedFields(r, data) ==
    SelectSeq(RequestFields, LAMBDA f : RequestFieldChanged(r, data, f))

\* _update_request: setattr of every changed field
UpdateRequestRow(r, data) ==
    [f \in DOMAIN r |->
        IF f \in Range(RequestUpdatedFields(r, data))
        THEN (IF f = "branch_id" THEN Val(DataGet(data, f)).n ELSE Val(DataGet(data, f)).s)
        ELSE r[f]]

\* "notes" in data and data["notes"]
NotesSupplied(data) == ~IsNone(data.notes) /\ Val(data.notes) # <<>>

\* _append_json_note: the note list with the entry appended
AppendJsonNote(existing_notes, new_note, now) ==
    Append(existing_notes, [timestamp |-> now, text |-> new_note])

\* _append_json_note appends in place to a non-empty list: the list that
\* previous_values holds is then the one the entry went into
NotesAliased(r, data) == NotesSupplied(data) /\ r.notes # <<>>

\* the arguments put hands to _log_request_history
RequestHistoryEntry(r, data, now) ==
    LET fields == RequestUpdatedFields(r, data)
                    \o (IF NotesSupplied(data) THEN <<"notes">> ELSE <<>>)
        updated_notes == AppendJsonNote(r.notes, Val(data.notes), now)
        previous_values == GetCurrentValues(r)
    IN  [request_id |-> r.id,
         updated_fields |-> fields,
         previous_values |->
            IF NotesAliased(r, data)
            THEN [previous_values EXCEPT !["notes"] = ListV(updated_notes)]
            ELSE previous_values,
         new_values |->
            [f \in Range(fields) |->
                IF f = "notes" THEN ListV(updated_notes) ELSE Val(DataGet(data, f))]]

\* the response of a REST request that changed nothing
RestFail(op, id, kind, message) ==
    /\ response' = Resp(op, id, kind, message, NoItems)
    /\ UNCHANGED <<authVars, appVars, restVars, updating, otherSession>>

\* RequestResource.put up to and including its own db.session.commit()
RestPut(id, data, now, commit) ==
    IF id \notin DOMAIN requests
    THEN RestFail("restPut", id, "NotFound", <<"Request not found">>)
    ELSE IF ~IsNone(commit)
    THEN RestFail("restPut", id, "InternalError", Val(commit))
    ELSE LET r == requests[id]
             entry == RequestHistoryEntry(r, data, now)
             updated == [UpdateRequestRow(r, data) EXCEPT
                            !.notes = IF NotesSupplied(data)
                                      THEN AppendJsonNote(r.notes, Val(data.notes), now)
                                      ELSE @]
         IN  /\ requests' = [requests EXCEPT ![id] = updated]
             /\ IF entry.updated_fields # <<>>
                THEN /\ Len(restPending) < MaxInFlight
                     /\ Len(requestHistory) + Len(restPending) < MaxHistory
                     /\ Len(updated.notes) <= MaxNotes
                     /\ restPending' = Append(restPending, entry)
                     /\ response' = Resp("restPut", id, "committed", <<>>, NoItems)
                ELSE /\ restPending' = restPending
                     /\ response' = Resp("restPut", id, "ok", <<>>, NoItems)
             /\ UNCHANGED <<authVars, appVars, requestHistory, updating, otherSession>>

\* _log_request_history: the history row in a commit of its own
RestLogRequestHistory(commit) ==
    /\ restPending # <<>>
    /\ restPending' = Tail(restPending)
    /\ IF IsNone(commit) /\ Head(restPending).request_id \in DOMAIN requests
       THEN /\ requestHistory' = Append(requestHistory, Head(restPending))
            /\ response' = Resp("restPut", Head(restPending).request_id, "ok", <<>>, NoItems)
       ELSE /\ requestHistory' = requestHistory
            /\ response' = Resp("restPut", Head(restPending).request_id, "InternalError",
                                <<"history commit raised">>, NoItems)
    /\ UNCHANGED <<authVars, appVars, requests, updating, otherSession>>

\* the worker stops between the two commits of put
RestPutStops ==
    /\ restPending # <<>>
    /\ restPending' = Tail(restPending)
    /\ response' = Resp("restPut", Head(restPending).request_id, "stopped", <<>>, NoItems)
    /\ UNCHANGED <<authVars, appVars, requests, requestHistory, updating, otherSession>>

\* RequestResource.delete: the row is removed, and its history rows with
\* it (cascade="all, delete-orphan" of the history relationship)
RestDelete(id, commit) ==
    IF id \notin DOMAIN requests
    THEN RestFail("restDelete", id, "NotFound", <<"Request not found">>)
    ELSE IF ~IsNone(commit)
    THEN RestFail("restDelete", id, "InternalError", Val(commit))
    ELSE /\ requests' = [i \in DOMAIN requests \ {id} |-> requests[i]]
         /\ requestHistory' = SelectSeq(requestHistory, LAMBDA h : h.request_id # id)
         /\ response' = Resp("restDelete", id, "ok", <<"Request deleted">>, NoItems)
         /\ UNCHANGED <<authVars, appVars, restPending, updating, otherSession>>

\* the JSON bodies of PUT the model draws
RestPutBodies ==
    [client_name : {None, Some(StrV(<<"I", "v", "a", "n", "o", "v">>))},
     phone_number : {None},
     branch_id : {None, Some(IntV(1)), Some(IntV(2))},
     product : {None},
     status : {None, Some(StrV(<<"closed">>))},
     notes : {None, Some(<<"call back">>)}]

-----------------------------------------------------------------------------
(* Initial states *)

NoResponse == Resp("", 0, "", <<>>, NoItems)

InitAuth ==
    /\ session = None
    /\ managers = {InitialManager}
    /\ nextManagerId = 2

InitStore ==
    /\ applications = InitialApplications
    /\ appHistory = <<>>
    /\ nextNoteId = 1
    /\ cache = [k \in ApplicationIdInputs |-> None]
    /\ updating = <<>>
    /\ otherSession = None

InitRest ==
    /\ requests = [i \in {1} |-> InitialRequest]
    /\ requestHistory = <<>>
    /\ restPending = <<>>

Init ==
    /\ InitAuth
    /\ admins = <<AdminRow>>
    /\ InitStore
    /\ InitRest
    /\ response = [NoResponse EXCEPT !.role = ""]

-----------------------------------------------------------------------------
(* The GraphQL application pipeline with its callers *)

\* the payloads of updateApplication drawn by Next
UpdateInputs ==
    [id : {<<"1">>, <<"x">>},
     branch_id : {None},
     client_name : {None},
     phone_number : {None},
     product : {None},
     status : {None, Some(<<"closed">>)}]

Next ==
    \/ \E p \in {AdminPassword, <<"pw1">>} : LoginAdmin(p)
    \/ \E u \in {GeneratedUsername(1)}, p \in {AdminPassword, <<"pw1">>} : LoginManager(u, p)
    \/ LogoutManager
    \/ \E input \in UpdateInputs, commit \in CommitOutcomes : UpdateApplication(input, commit)
    \/ \E id \in {<<"1">>, <<"2">>, <<"9">>}, now \in Times, commit \in CommitOutcomes :
            DeleteApplication(id, now, commit)
    \/ FetchAllApplications(None, None, None, 10, 0)
    \/ FetchDeletedApplications(None, None, 10, 0)
    \/ \E id \in {<<"1">>, <<"0", "1">>}, helper \in BOOLEAN : FetchApplicationById(id, helper)
    \/ \E k \in ApplicationIdInputs : CacheExpire(k)

Spec == Init /\ [][Next]_vars

-----------------------------------------------------------------------------
(* Authentication and manager administration *)

InitSessions ==
    /\ InitAuth
    /\ admins \in {<<>>, <<AdminRow>>}
    /\ InitStore
    /\ InitRest
    /\ response = [NoResponse EXCEPT !.role = ""]

NextSessions ==
    \/ \E p \in {AdminPassword, <<"pw1">>} : LoginAdmin(p)
    \/ \E u \in Usernames, p \in {<<"pw1">>, <<"pw2">>} : LoginManager(u, p)
    \/ LogoutManager
    \/ \E name \in {<<>>, <<"Bob">>}, p \in {<<>>, <<"pw2">>}, b \in {<<>>, <<"South">>},
          commit \in CommitOutcomes : RegisterManager(name, p, b, commit)
    \/ \E id \in ManagerIdInputs, commit \in CommitOutcomes : DeleteManager(id, commit)
    \/ \E input \in UpdateManagerInputs, commit \in CommitOutcomes : UpdateManager(input, commit)
    \/ \E role \in RoleArguments : GuardedOperation(role)

SpecSessions == InitSessions /\ [][NextSessions]_vars

-----------------------------------------------------------------------------
(* The update pipeline over its payloads *)

\* the payloads of updateApplication drawn by NextUpdates
DiffInputs ==
    [id : {<<"1">>, <<"9">>},
     branch_id : {None, Some(<<"1">>), Some(<<"0", "1">>), Some(<<"2">>), Some(<<"x">>)},
     client_name : {None, Some(<<"I", "v", "a", "n", "o", "v">>), Some(<<"P", "e", "t", "r", "o", "v">>)},
     phone_number : {None},
     product : {None},
     status : {None, Some(<<"in-progress">>), Some(<<"closed">>)}]

InitUpdates ==
    /\ session \in {None, Some(AdminUser), Some(ManagerUser(InitialManager))}
    /\ managers = {InitialManager}
    /\ nextManagerId = 2
    /\ admins = <<AdminRow>>
    /\ InitStore
    /\ InitRest
    /\ response = Resp("", 0, "", <<>>, NoItems)

NextUpdates ==
    \E input \in DiffInputs, commit \in CommitOutcomes : UpdateApplication(input, commit)

SpecUpdates == InitUpdates /\ [][NextUpdates]_vars

-----------------------------------------------------------------------------
(* The application mutations and their commits *)

NextMutations ==
    \/ \E input \in UpdateInputs, commit \in CommitOutcomes : UpdateApplication(input, commit)
    \/ \E id \in {<<"1">>, <<"9">>}, now \in Times, commit \in CommitOutcomes :
            DeleteApplication(id, now, commit)
    \/ \E now \in Times, commit \in CommitOutcomes :
            AddNoteToApplication(<<"1">>, <<"call back">>, now, commit)
    \/ \E noteId \in NoteIdInputs, commit \in CommitOutcomes :
            RemoveNoteFromApplication(<<"1">>, noteId, commit)
    \/ \E noteId \in NoteIdInputs, commit \in CommitOutcomes :
            UpdateNoteFromApplication(<<"1">>, noteId, <<"docs sent">>, commit)

SpecMutations == InitUpdates /\ [][NextMutations]_vars

-----------------------------------------------------------------------------
(* The note mutations alone *)

NextNotes ==
    \/ \E now \in Times, commit \in CommitOutcomes :
            AddNoteToApplication(<<"1">>, <<"call back">>, now, commit)
    \/ \E noteId \in NoteIdInputs, commit \in CommitOutcomes :
            RemoveNoteFromApplication(<<"1">>, noteId, commit)
    \/ \E noteId \in NoteIdInputs, commit \in CommitOutcomes :
            UpdateNoteFromApplication(<<"1">>, noteId, <<"docs sent">>, commit)

SpecNotes == InitUpdates /\ [][NextNotes]_vars

-----------------------------------------------------------------------------
(* The REST resource *)

NextRest ==
    \/ \E id \in {1, 2}, data \in RestPutBodies, now \in Times, commit \in CommitOutcomes :
            RestPut(id, data, now, commit)
    \/ \E commit \in CommitOutcomes : RestLogRequestHistory(commit)
    \/ RestPutStops
    \/ \E id \in {1, 2}, commit \in CommitOutcomes : RestDelete(id, commit)

SpecRest == Init /\ [][NextRest]_vars

-----------------------------------------------------------------------------
(* The list queries over their arguments, with soft deletes in between *)

\* filter arguments: none, one component, both components
FilterInputs ==
    {None,
     Some([branch_name |-> None, status |-> Some(<<"closed">>)]),
     Some([branch_name |-> Some(<<"North">>), status |-> None]),
     Some([branch_name |-> Some(<<"South">>), status |-> Some(<<"closed">>)]),
     Some([branch_name |-> Some(<<"North">>), status |-> Some(<<"closed">>)])}

\* search arguments: none, digits of one phone number, digits of none, and
\* the characters ILIKE reads as wildcards
SearchInputs == {None, Some(<<"0", "2">>), Some(<<"9">>), Some(<<"_">>), Some(<<"0", "%">>)}

\* sort arguments: none, and id descending
SortInputs == {None, Some(<<[field |-> "id", direction |-> "DESC"]>>)}

\* first: one row a page, and the default of the resolver
PageSizes == {1, 10}

\* offset: from the first row to past the last
Offsets == 0..MaxOffset

NextQueries ==
    \/ \E input \in UpdateInputs, commit \in CommitOutcomes : UpdateApplication(input, commit)
    \/ \E id \in {<<"1">>, <<"2">>}, now \in Times, commit \in CommitOutcomes :
            DeleteApplication(id, now, commit)
    \/ \E filter \in FilterInputs, sort \in SortInputs, search \in SearchInputs,
          first \in PageSizes, offset \in Offsets :
            FetchAllApplications(filter, sort, search, first, offset)
    \/ \E sort \in SortInputs, search \in SearchInputs,
          first \in PageSizes, offset \in Offsets :
            FetchDeletedApplications(sort, search, first, offset)

SpecQueries == InitUpdates /\ [][NextQueries]_vars

-----------------------------------------------------------------------------
(* Updates with any status string, and soft deletes *)

\* payloads of updateApplication whose status is any string: values of the
\* enum, and one that is none of them
ArbitraryStatusInputs ==
    [id : {<<"1">>, <<"2">>},
     branch_id : {None},
     client_name : {None},
     phone_number : {None},
     product : {None},
     status : {Some(<<"closed">>), Some(<<"transferred">>), Some(<<"archived">>)}]

NextStatuses ==
    \/ \E input \in ArbitraryStatusInputs, commit \in CommitOutcomes :
            UpdateApplication(input, commit)
    \/ \E id \in {<<"1">>, <<"2">>}, now \in Times, commit \in CommitOutcomes :
            DeleteApplication(id, now, commit)

SpecStatuses == InitUpdates /\ [][NextStatuses]_vars

-----------------------------------------------------------------------------
(* Updates of each tracked field alone and together, on an application     *)
(* that may carry notes and may be soft-deleted                             *)

\* payloads of updateApplication: each of three tracked fields carried or not
FrameInputs ==
    [id : {<<"1">>},
     branch_id : {None, Some(<<"2">>)},
     client_name : {None, Some(<<"P", "e", "t", "r", "o", "v">>)},
     phone_number : {None},
     product : {None},
     status : {None, Some(<<"closed">>)}]

NextFrames ==
    \/ \E input \in FrameInputs, commit \in CommitOutcomes : UpdateApplication(input, commit)
    \/ \E now \in Times : DeleteApplication(<<"1">>, now, None)
    \/ \E now \in Times : AddNoteToApplication(<<"1">>, <<"call back">>, now, None)

SpecFrames == InitUpdates /\ [][NextFrames]_vars

-----------------------------------------------------------------------------
(* The list query over its sort argument, with client names that may tie   *)
(* and soft deletes in between                                             *)

\* sort arguments: none, the empty list, lists of recognized fields, and
\* lists with application_datetime, which the enum of the schema offers and
\* the model does not have
SortListInputs ==
    {None,
     Some(<<>>),
     Some(<<[field |-> "id", direction |-> "DESC"]>>),
     Some(<<[field |-> "client_name", direction |-> "ASC"],
            [field |-> "id", direction |-> "DESC"]>>),
     Some(<<[field |-> "application_datetime", direction |-> "DESC"],
            [field |-> "client_name", direction |-> "DESC"],
            [field |-> "id", direction |-> "ASC"]>>),
     Some(<<[field |-> "client_name", direction |-> "ASC"],
            [field |-> "application_datetime", direction |-> "ASC"],
            [field |-> "id", direction |-> "ASC"]>>)}

\* payloads of updateApplication that give the first application the client
\* name of the second, or its own again
RenameInputs ==
    [id : {<<"1">>},
     branch_id : {None},
     client_name : {Some(<<"P", "e", "t", "r", "o", "v">>), Some(<<"I", "v", "a", "n", "o", "v">>)},
     phone_number : {None},
     product : {None},
     status : {None}]

NextSorts ==
    \/ \E input \in RenameInputs : UpdateApplication(input, None)
    \/ \E id \in {<<"1">>, <<"2">>}, now \in Times : DeleteApplication(id, now, None)
    \/ \E sort \in SortListInputs, first \in PageSizes, offset \in Offsets :
            FetchAllApplications(None, sort, None, first, offset)

SpecSorts == InitUpdates /\ [][NextSorts]_vars

-----------------------------------------------------------------------------
(* fetchApplicationById and its cache entry between the mutations *)

\* payloads of updateApplication that close the first application
CloseInputs ==
    [id : {<<"1">>},
     branch_id : {None},
     client_name : {None},
     phone_number : {None},
     product : {None},
     status : {Some(<<"closed">>)}]

NextCache ==
    \/ \E input \in CloseInputs : UpdateApplication(input, None)
    \/ DeleteApplication(<<"1">>, 1, None)
    \/ AddNoteToApplication(<<"1">>, <<"call back">>, 1, None)
    \/ UpdateNoteFromApplication(<<"1">>, NoteId(1), <<"docs sent">>, None)
    \/ RemoveNoteFromApplication(<<"1">>, NoteId(1), None)
    \/ \E helper \in BOOLEAN : FetchApplicationById(<<"1">>, helper)
    \/ CacheExpire(<<"1">>)

SpecCache == InitUpdates /\ [][NextCache]_vars

-----------------------------------------------------------------------------
(* updateApplication requests that run beside each other *)

\* payloads of updateApplication that change the status of application 1
ConcurrentInputs ==
    [id : {<<"1">>},
     branch_id : {None},
     client_name : {None},
     phone_number : {None},
     product : {None},
     status : {Some(<<"closed">>), Some(<<"transferred">>)}]

NextInterleaved ==
    \/ \E input \in ConcurrentInputs : BeginUpdate(input)
    \/ \E k \in 1..MaxConcurrent, commit \in CommitOutcomes : FinishUpdate(k, commit)

SpecInterleaved == InitUpdates /\ [][NextInterleaved]_vars

-----------------------------------------------------------------------------
(* Two clients, each with its session *)

NextClients ==
    \/ \E p \in {AdminPassword, <<"pw1">>} : LoginAdmin(p)
    \/ \E u \in Usernames, p \in {<<"pw1">>, <<"pw2">>} : LoginManager(u, p)
    \/ LogoutManager
    \/ \E id \in ManagerIdInputs, commit \in CommitOutcomes : DeleteManager(id, commit)
    \/ GuardedOperation(NoteMutationRoles)
    \/ \E commit \in CommitOutcomes :
            AddNoteToApplication(<<"1">>, <<"call back">>, 1, commit)
    \/ SwitchClient

SpecClients == Init /\ [][NextClients]_vars

-----------------------------------------------------------------------------
(* Properties *)

\* some history row of the entity names the field
FieldNamedInHistory(history, key, id, f) ==
    \E i \in DOMAIN history :
        history[i][key] = id /\ f \in Range(history[i].updated_fields)

\* the column of the row holds the value an audit dict records (an id
\* recorded as a string is read as the number it spells)
ColumnHolds(row, f, v) ==
    CASE f = "branch_id" -> row.branch_id = (IF v.t = "int" THEN v.n ELSE PyInt(v.s))
      [] f = "notes" -> row.notes = v.l
      [] OTHER -> row[f] = v.s

\* the history row is the latest of its entity that names the field
LatestNaming(history, key, i, f) ==
    \A j \in DOMAIN history :
        (j > i /\ history[j][key] = history[i][key]) => f \notin Range(history[j].updated_fields)

\* C1: an update and its audit entry are persisted together or not at all.
\* In every persisted state with no REST PUT between its two commits, each
\* tracked column of an application or request that differs from its
\* original value is named by an audit entry of that entity, and the latest
\* audit entry naming a column records the value the column holds.
C1_UpdateAndAuditTogether ==
    /\ \A id \in DOMAIN applications : \A f \in Range(TrackedFields) :
          applications[id][f] # InitialApplications[id][f]
              => FieldNamedInHistory(appHistory, "application_id", id, f)
    /\ \A i \in DOMAIN appHistory : \A f \in Range(appHistory[i].updated_fields) :
          LatestNaming(appHistory, "application_id", i, f)
              => ColumnHolds(applications[appHistory[i].application_id], f,
                             appHistory[i].new_values[f])
    /\ restPending = <<>> =>
          /\ \A id \in DOMAIN requests : \A f \in Range(RequestFields) \cup {"notes"} :
                requests[id][f] # InitialRequest[f]
                    => FieldNamedInHistory(requestHistory, "request_id", id, f)
          /\ \A i \in DOMAIN requestHistory : \A f \in Range(requestHistory[i].updated_fields) :
                LatestNaming(requestHistory, "request_id", i, f)
                    => ColumnHolds(requests[requestHistory[i].request_id], f,
                                   requestHistory[i].new_values[f])

\* every tracked field the GraphQL payload supplies has the value the row holds
SuppliesNoChange(input, a) ==
    /\ IsNone(input.branch_id)
       \/ (IsIntLiteral(Val(input.branch_id)) /\ PyInt(Val(input.branch_id)) = a.branch_id)
    /\ \A f \in Range(StringFields) : IsNone(input[f]) \/ Val(input[f]) = a[f]

\* every tracked field the JSON body supplies has the value the row holds
BodySuppliesNoChange(data, r) ==
    \A f \in Range(RequestFields) : IsNone(data[f]) \/ Val(data[f]) = RequestValue(r, f)

\* C2: an update whose supplied tracked fields all equal the current values
\* of the row, or that supplies no tracked field, creates no audit entry:
\* the history of the entity is as long after the update as before.
C2_NoOpUpdateCreatesNoEntry ==
    [][/\ \A input \in DiffInputs :
            (/\ ~IsNone(ValidateId(input.id))
             /\ Val(ValidateId(input.id)) \in DOMAIN applications
             /\ SuppliesNoChange(input, applications[Val(ValidateId(input.id))])
             /\ UpdateApplication(input, None))
                => Len(appHistory') = Len(appHistory)
       /\ \A id \in DOMAIN requests, data \in RestPutBodies, now \in Times :
            (/\ IsNone(data.notes)
             /\ BodySuppliesNoChange(data, requests[id])
             /\ RestPut(id, data, now, None))
                => /\ restPending' = restPending
                   /\ requestHistory' = requestHistory]_vars

\* the keys of both dicts of a history row are its updated fields
KeysAgree(e) ==
    /\ DOMAIN e.previous_values = Range(e.updated_fields)
    /\ DOMAIN e.new_values = Range(e.updated_fields)

\* C3: in every audit entry persisted by updateApplication or by REST PUT
\* the key set of previous_values equals the key set of new_values, and
\* both equal the set of names in updated_fields.
C3_AuditKeySetsAgree ==
    /\ \A i \in DOMAIN appHistory : KeysAgree(appHistory[i])
    /\ \A i \in DOMAIN requestHistory : KeysAgree(requestHistory[i])

\* the entry records the change from the row before to the row after: the
\* changed fields in the declared order, the snapshot and the new values
RecordsTheChange(e, declared, before, after) ==
    /\ e.updated_fields = SelectSeq(declared, LAMBDA f : before[f] # after[f])
    /\ \A f \in Range(e.updated_fields) :
          /\ f \in DOMAIN e.previous_values
          /\ f \in DOMAIN e.new_values
          /\ ColumnHolds(before, f, e.previous_values[f])
          /\ ColumnHolds(after, f, e.new_values[f])

\* C4: a successful update that changes a tracked field creates exactly one
\* audit entry, whose updated_fields are the changed fields in the declared
\* order, whose previous_values hold the values before the update and whose
\* new_values hold the values after it; for REST PUT this includes notes,
\* whose previous value is the note list before the append.
C4_OneEntryOfTheChange ==
    [][/\ (/\ response'.op = "updateApplication"
           /\ response'.kind = "ok"
           /\ applications' # applications)
              => /\ Len(appHistory') = Len(appHistory) + 1
                 /\ appHistory'[Len(appHistory')].application_id = response'.id
                 /\ RecordsTheChange(appHistory'[Len(appHistory')], TrackedFields,
                                     applications[response'.id],
                                     applications'[response'.id])
       /\ (/\ response'.op = "restPut"
           /\ response'.id \in DOMAIN requests
           /\ response'.id \in DOMAIN requests'
           /\ requests' # requests)
              => /\ Len(restPending') = Len(restPending) + 1
                 /\ restPending'[Len(restPending')].request_id = response'.id
                 /\ RecordsTheChange(restPending'[Len(restPending')],
                                     RequestFields \o <<"notes">>,
                                     requests[response'.id],
                                     requests'[response'.id])]_vars

ApplicationMutations ==
    {"updateApplication", "deleteApplication", "addNoteToApplication",
     "removeNoteFromApplication", "updateNoteFromApplication"}

\* the messages of an internal error, one per mutation
FixedInternalErrors ==
    {<<"Internal server error while ", "saving the application.">>,
     <<"Internal server error while ", "soft-deleting the application.">>,
     <<"Internal server error while ", "adding note to application.">>,
     <<"Internal server error while ", "removing note from application.">>,
     <<"Internal server error while ", "updating note from application.">>}

\* C5: when the commit of updateApplication, deleteApplication or a note
\* mutation fails, nothing staged is persisted: the applications (tracked
\* fields, notes, deletion flags) and the audit entries are what they were,
\* and the caller gets an internal error whose message is one of the fixed
\* texts and holds no part of the cause.
C5_CommitFailureRollsBack ==
    [][(response'.kind = "InternalError" /\ response'.op \in ApplicationMutations)
          => /\ applications' = applications
             /\ appHistory' = appHistory
             /\ response'.message \in FixedInternalErrors
             /\ \A c \in CommitOutcomes \ {None} :
                   \A i \in DOMAIN response'.message : \A j \in DOMAIN Val(c) :
                       response'.message[i] # Val(c)[j]]_vars

\* a soft delete failed at its commit and the row is not deleted
C5_Witness ==
    /\ response.op = "deleteApplication"
    /\ response.kind = "InternalError"
    /\ response.id \in DOMAIN applications
    /\ ~applications[response.id].is_deleted
    /\ Len(applications[response.id].notes) > 0

AdminOnlyMutations == {"registerManager", "deleteManager", "updateManager"}

\* C6: for a caller whose session role is manager, registerManager,
\* deleteManager and updateManager fail with the Forbidden error 'Access
\* requires role: admin' and the Manager table is unchanged.
C6_ManagerCannotAdministerManagers ==
    [][(/\ response'.op \in AdminOnlyMutations
        /\ ~IsNone(session)
        /\ Val(session).role = "manager")
          => /\ response'.kind = "Forbidden"
             /\ response'.message = <<"Access requires role: ", "admin">>
             /\ managers' = managers
             /\ nextManagerId' = nextManagerId]_vars

\* a manager was refused the deletion of a manager
C6_Witness ==
    /\ response.op = "deleteManager"
    /\ response.kind = "Forbidden"
    /\ response.role = "manager"
    /\ ~IsNone(session)

\* the roles a role argument requires: none when it is unset or empty
RequiredRoles(role) ==
    CASE role.kind = "str"  -> IF role.str = "" THEN {} ELSE {role.str}
      [] role.kind = "list" -> Range(role.list)
      [] OTHER -> {}

\* C7: login_required(role) fails with 'Authentication required.' when there
\* is no session user, whatever the roles; fails with 'Access requires
\* role' when the role of the session is not in a non-empty required set;
\* and otherwise, also when the required set is empty or unset, lets the
\* operation run.  A refusal of the guard changes neither the session nor
\* the store.
C7_GuardDecision ==
    [][/\ \A role \in RoleArguments :
            GuardedOperation(role) =>
                IF IsNone(session)
                THEN /\ response'.kind = "Unauthenticated"
                     /\ response'.message = <<"Authentication required.">>
                ELSE IF RequiredRoles(role) # {} /\ Val(session).role \notin RequiredRoles(role)
                THEN /\ response'.kind = "Forbidden"
                     /\ response'.message[1] = "Access requires role: "
                ELSE response'.kind = "ok"
       /\ response'.kind \in {"Unauthenticated", "Forbidden"}
            => UNCHANGED <<authVars, appVars, restVars>>]_vars

\* a manager was refused by a guard that requires another role
C7_Witness ==
    /\ response.op = "guarded"
    /\ response.kind = "Forbidden"
    /\ response.role = "manager"

GuardedOperations == AdminOnlyMutations \cup {"guarded"}

\* C8: logout never fails and is idempotent: with a session it removes the
\* session user and reports success, without one it reports 'No active
\* session found.' and the session stays empty; while there is no session
\* every guarded operation fails as unauthenticated, and only a successful
\* login creates a session.
C8_LogoutIdempotent ==
    [][/\ response'.op = "logoutManager"
            => /\ session' = None
               /\ IF IsNone(session)
                  THEN /\ response'.kind = "NoSession"
                       /\ response'.message = <<"No active session found.">>
                  ELSE /\ response'.kind = "ok"
                       /\ response'.message = <<"Logout successful.">>
       /\ (IsNone(session) /\ response'.op \in GuardedOperations)
            => response'.kind = "Unauthenticated"
       /\ (IsNone(session) /\ ~IsNone(session'))
            => /\ response'.op \in {"loginAdmin", "loginManager"}
               /\ response'.kind = "ok"]_vars

\* a logout without a session, after a manager was registered
C8_Witness ==
    /\ response.op = "logoutManager"
    /\ response.kind = "NoSession"
    /\ IsNone(session)
    /\ Cardinality(managers) > 1

\* C9: a successful deleteApplication(id) leaves the application with
\* is_deleted set and deleted_at set, and it stays so; no fetchAllApplications
\* result holds a deleted application, and the admin's
\* fetchDeletedApplications result with a page that holds them all has every
\* deleted application.
C9_SoftDeletedLeavesTheList ==
    [][/\ (response'.op = "deleteApplication" /\ response'.kind = "ok")
            => /\ applications'[response'.id].is_deleted
               /\ ~IsNone(applications'[response'.id].deleted_at)
       /\ \A id \in DOMAIN applications :
            applications[id].is_deleted
                => /\ id \in DOMAIN applications'
                   /\ applications'[id].is_deleted
                   /\ ~IsNone(applications'[id].deleted_at)
       /\ response'.op = "fetchAllApplications"
            => \A i \in DOMAIN response'.items :
                   ~applications'[response'.items[i].id].is_deleted
       /\ (response'.op = "fetchDeletedApplications" /\ response'.kind = "ok")
            => \A id \in DOMAIN applications' :
                   applications'[id].is_deleted
                       => \E i \in DOMAIN response'.items : response'.items[i].id = id]_vars

\* the admin lists the deleted applications: the deleted one is there and
\* the other application is not
C9_Witness ==
    /\ response.op = "fetchDeletedApplications"
    /\ response.kind = "ok"
    /\ Len(response.items) = 1
    /\ response.items[1].is_deleted
    /\ ~IsNone(response.items[1].deleted_at)
    /\ \E id \in DOMAIN applications : ~applications[id].is_deleted

ReadOperations ==
    {"fetchAllApplications", "fetchDeletedApplications", "fetchApplicationById"}

C11_SoftDeleteRecordsActor ==
    [][(response'.op = "deleteApplication" /\ response'.kind = "ok")
          => /\ applications'[response'.id].is_deleted
             /\ ~IsNone(applications'[response'.id].deleted_at)
             /\ applications'[response'.id].deleted_by = Some(Val(session).name)
             /\ appHistory' = appHistory]_vars

\* every history row of before is a history row of after, at its place
HistoryKept(before, after) ==
    /\ Len(before) <= Len(after)
    /\ \A i \in DOMAIN before : after[i] = before[i]

\* C12: the audit trail is append-only: a persisted audit entry of either
\* interface is never modified and never removed, and no operation removes
\* an Application or a Request record.
C12_AuditTrailAppendOnly ==
    [][/\ HistoryKept(appHistory, appHistory')
       /\ HistoryKept(requestHistory, requestHistory')
       /\ DOMAIN applications \subseteq DOMAIN applications'
       /\ DOMAIN requests \subseteq DOMAIN requests']_vars

\* the ids of the notes of a sequence
NoteIds(notes) == {notes[i].id : i \in DOMAIN notes}

\* every application but the one with this id is as it was
OthersUnchanged(id) ==
    /\ DOMAIN applications' = DOMAIN applications
    /\ \A other \in DOMAIN applications : other # id => applications'[other] = applications[other]

\* the row is as it was but for its notes
OnlyNotesChanged(id) ==
    [applications'[id] EXCEPT !.notes = applications[id].notes] = applications[id]

\* C13: a successful addNote on an existing application appends exactly one
\* note at the end of the note sequence: its id is none of the ids already
\* there, created_by is the current actor, is_updated is false and
\* updated_by is unset; the earlier notes keep place and content, and the
\* tracked fields and every other column and application are unchanged.
C13_AddNoteAppendsOne ==
    [][(response'.op = "addNoteToApplication" /\ response'.kind = "ok")
          => LET before == applications[response'.id].notes
                 after == applications'[response'.id].notes
             IN  /\ Len(after) = Len(before) + 1
                 /\ SubSeq(after, 1, Len(before)) = before
                 /\ after[Len(after)].id \notin NoteIds(before)
                 /\ after[Len(after)].created_by = Val(session).name
                 /\ after[Len(after)].is_updated = FALSE
                 /\ after[Len(after)].updated_by = None
                 /\ OnlyNotesChanged(response'.id)
                 /\ OthersUnchanged(response'.id)
                 /\ appHistory' = appHistory]_vars

\* a note was added behind an earlier note that had been edited
C13_Witness ==
    /\ response.op = "addNoteToApplication"
    /\ response.kind = "ok"
    /\ Len(applications[response.id].notes) = 2
    /\ applications[response.id].notes[1].is_updated
    /\ ~applications[response.id].notes[2].is_updated

\* the note sequence after a note with a fresh id is added and the note with
\* that id is removed again
AddThenRemove(notes, text, now, user) ==
    RemoveNote(AppendNote(notes, NewNote(NoteId(nextNoteId), text, now, user)),
               NoteId(nextNoteId))

\* the ids of a note sequence, in order
NoteIdSeq(notes) == [i \in DOMAIN notes |-> notes[i].id]

\* C14: round trip: for any application and any note sequence it holds,
\* adding a note and then removing the note with the id just generated
\* leaves the note sequence identical, in ids and in order, to the sequence
\* before the add; and a removeNote step that follows an addNote step on the
\* same application and removes the note just added leaves the notes that
\* were there before the add, in their order.
C14_AddRemoveRoundTrip ==
    /\ [](\A id \in DOMAIN applications, text \in NoteTexts, now \in Times :
             ~IsNone(session) =>
                 /\ AddThenRemove(applications[id].notes, text, now, Val(session).name)
                        = applications[id].notes
                 /\ NoteIdSeq(AddThenRemove(applications[id].notes, text, now,
                                            Val(session).name))
                        = NoteIdSeq(applications[id].notes))
    /\ [][(/\ response.op = "addNoteToApplication"
           /\ response.kind = "ok"
           /\ response'.op = "removeNoteFromApplication"
           /\ response'.kind = "ok"
           /\ response'.id = response.id
           /\ LET notes == applications[response.id].notes
              IN  notes[Len(notes)].id \notin NoteIds(applications'[response.id].notes))
             => LET notes == applications[response.id].notes
                IN  applications'[response.id].notes = SubSeq(notes, 1, Len(notes) - 1)]_vars

\* the note just added behind an earlier one was removed again, and the
\* earlier one is what is left
C14_Witness ==
    /\ response.op = "removeNoteFromApplication"
    /\ response.kind = "ok"
    /\ nextNoteId = 3
    /\ NoteIdSeq(applications[response.id].notes) = <<NoteId(1)>>

\* the note sequence with the text, the flag and the editor of the note of
\* this id replaced and every other note and field as it is
NoteEdited(notes, noteId, text, user) ==
    [i \in DOMAIN notes |->
        IF notes[i].id = noteId
        THEN [id |-> notes[i].id, text |-> text, timestamp |-> notes[i].timestamp,
              is_updated |-> TRUE, created_by |-> notes[i].created_by,
              updated_by |-> Some(user)]
        ELSE notes[i]]

\* C15: updateNote(applicationId, noteId, newText) on an existing note sets
\* that note's text to newText, is_updated to true and updated_by to the
\* current actor and changes nothing else: id, created_by and timestamp of
\* the note, every other note, length and order of the sequence, and the rest
\* of the store are unchanged. When no note has that id it fails with
\* NotFound and the sequence is unchanged.
C15_UpdateNoteFrame ==
    [][\A noteId \in NoteIdInputs, text \in NoteTexts, commit \in CommitOutcomes :
          (/\ response'.op = "updateNoteFromApplication"
           /\ UpdateNoteFromApplication(<<"1">>, noteId, text, commit)
           /\ LoginRequired(session, NoteMutationRoles) = GuardPass
           /\ FetchApplication(session, <<"1">>).kind = "pass")
             => IF noteId \in NoteIds(applications[1].notes)
                THEN /\ response'.kind \in {"ok", "InternalError"}
                     /\ response'.kind = "ok"
                           => /\ applications'[1].notes
                                     = NoteEdited(applications[1].notes, noteId, text,
                                                  Val(session).name)
                              /\ OnlyNotesChanged(1)
                              /\ OthersUnchanged(1)
                              /\ appHistory' = appHistory
                     /\ response'.kind = "InternalError" => applications' = applications
                ELSE /\ response'.kind = "NotFound"
                     /\ applications' = applications]_vars

\* the second of two notes was edited and the first is as it was added
C15_Witness ==
    /\ response.op = "updateNoteFromApplication"
    /\ response.kind = "ok"
    /\ Len(applications[1].notes) = 2
    /\ ~applications[1].notes[1].is_updated
    /\ applications[1].notes[2].is_updated
    /\ applications[1].notes[2].text = <<"docs sent">>

\* an edit of a note that is not there was refused
C15_WitnessNotFound ==
    /\ response.op = "updateNoteFromApplication"
    /\ response.kind = "NotFound"
    /\ applications[1].notes # <<>>

\* C16: over any sequence of addNote, updateNote and removeNote operations
\* (and the other mutations), as long as a note exists its id and created_by
\* never change, and once its is_updated flag is true it is true in every
\* later state: a step that keeps the number of notes keeps their ids in
\* place, and a note whose id is still there keeps created_by and a set flag.
C16_NoteIdentityStable ==
    [][\A id \in DOMAIN applications :
          LET before == applications[id].notes
              after == applications'[id].notes
          IN  /\ Len(after) = Len(before) => NoteIdSeq(after) = NoteIdSeq(before)
              /\ \A i \in DOMAIN before, j \in DOMAIN after :
                    after[j].id = before[i].id
                       => /\ after[j].created_by = before[i].created_by
                          /\ before[i].is_updated => after[j].is_updated]_vars

\* a note of the manager moved up after the note before it was removed, and
\* the last step edited it: it has its id, its author and its flag
C16_Witness ==
    /\ response.op = "updateNoteFromApplication"
    /\ response.kind = "ok"
    /\ response.role = "manager"
    /\ nextNoteId = 3
    /\ Len(applications[1].notes) = 1
    /\ applications[1].notes[1].id = NoteId(2)
    /\ applications[1].notes[1].is_updated
    /\ applications[1].notes[1].created_by = InitialManager.name

\* the sequence without its k-th element
WithoutIndex(seq, k) == SubSeq(seq, 1, k - 1) \o SubSeq(seq, k + 1, Len(seq))

\* C17: removeNote(applicationId, noteId) fails with NotFound and leaves the
\* persisted note sequence unchanged when no note has that id; otherwise the
\* resulting sequence is the previous one with exactly one element removed,
\* the one with that id, and the remaining notes keep their relative order.
C17_RemoveNoteExactlyOne ==
    [][\A noteId \in NoteIdInputs, commit \in CommitOutcomes :
          (/\ response'.op = "removeNoteFromApplication"
           /\ RemoveNoteFromApplication(<<"1">>, noteId, commit)
           /\ LoginRequired(session, NoteMutationRoles) = GuardPass
           /\ FetchApplication(session, <<"1">>).kind = "pass")
             => IF noteId \in NoteIds(applications[1].notes)
                THEN /\ response'.kind \in {"ok", "InternalError"}
                     /\ response'.kind = "ok"
                           => /\ \E k \in DOMAIN applications[1].notes :
                                    /\ applications[1].notes[k].id = noteId
                                    /\ applications'[1].notes
                                          = WithoutIndex(applications[1].notes, k)
                              /\ OnlyNotesChanged(1)
                              /\ OthersUnchanged(1)
                     /\ response'.kind = "InternalError" => applications' = applications
                ELSE /\ response'.kind = "NotFound"
                     /\ applications' = applications]_vars

\* the first of two notes was removed and the second is what is left
C17_Witness ==
    /\ response.op = "removeNoteFromApplication"
    /\ response.kind = "ok"
    /\ nextNoteId = 3
    /\ NoteIdSeq(applications[1].notes) = <<NoteId(2)>>

\* a removal of a note that is not there was refused and the notes are there
C17_WitnessNotFound ==
    /\ response.op = "removeNoteFromApplication"
    /\ response.kind = "NotFound"
    /\ Len(applications[1].notes) = 2

\* the non-deleted applications that match a filter and a search
MatchingRows(filter, search) ==
    QueryRows({a \in Range(applications) : ~a.is_deleted}, filter, search)

\* total and per-status counts over a set of rows
StatusCountsOver(rows) ==
    [total |-> Cardinality(rows),
     closed |-> Cardinality({a \in rows : a.status = <<"closed">>}),
     transferred |-> Cardinality({a \in rows : a.status = <<"transferred">>}),
     in_progress |-> Cardinality({a \in rows : a.status = <<"in-progress">>})]

\* C18: the aggregate counts returned by fetchAllApplications (totalCount,
\* totalClosedCount, totalTransferredCount, totalInProgressCount,
\* branchCounts) are the counts over the non-deleted applications that match
\* the supplied filter and search: soft-deleted applications are not counted,
\* and for a fixed store, filter and search the counts are the same for every
\* sort, offset and page size, a page without items included.
C18_CountsOverFilteredSet ==
    [][\A filter \in FilterInputs, sort \in SortInputs, search \in SearchInputs,
         first \in PageSizes, offset \in Offsets :
          (/\ FetchAllApplications(filter, sort, search, first, offset)
           /\ LoginRequired(session, RoleList(<<"admin", "manager">>)) = GuardPass)
             => response'.counts
                   = Some([status |-> StatusCountsOver(MatchingRows(filter, search)),
                           branches |-> TotalBranchCounts(MatchingRows(filter, search))])]_vars

\* term occurs in text as a substring, letters compared in lower case
ContainsIgnoringCase(text, term) ==
    \E i \in 1..(Len(text) - Len(term) + 1) :
        \A j \in 1..Len(term) : LowerChar(text[i + j - 1]) = LowerChar(term[j])

\* a filter or search component the caller supplied with a value
Supplied(component) == ~IsNone(component) /\ Val(component) # <<>>

\* the item is live, matches the supplied filter components and has the
\* supplied search term in its phone number
ItemMatches(item, filter, search) ==
    /\ ~item.is_deleted
    /\ (~IsNone(filter) /\ Supplied(Val(filter).branch_name))
          => BranchNameOf(item.branch_id) = Val(Val(filter).branch_name)
    /\ (~IsNone(filter) /\ Supplied(Val(filter).status))
          => item.status = Val(Val(filter).status)
    /\ Supplied(search) => ContainsIgnoringCase(item.phone_number, Val(search))

\* the steps of the two list queries return what C19 says, for the search
\* terms of this set
ListQueriesReturnMatches(searches) ==
    /\ \A filter \in FilterInputs, sort \in SortInputs, search \in searches,
         first \in PageSizes, offset \in Offsets :
          FetchAllApplications(filter, sort, search, first, offset)
             => \A i \in DOMAIN response'.items :
                   ItemMatches(response'.items[i], filter, search)
    /\ \A sort \in SortInputs, search \in searches,
         first \in PageSizes, offset \in Offsets :
          (FetchDeletedApplications(sort, search, first, offset) /\ response'.kind = "ok")
             => /\ response'.role = "admin"
                /\ \A i \in DOMAIN response'.items : response'.items[i].is_deleted

\* C19: every item returned by fetchAllApplications is not soft-deleted,
\* matches every supplied filter component (branch and status, conjunctively)
\* and contains the search term as a case-insensitive substring of its phone
\* number; every item returned by fetchDeletedApplications is soft-deleted,
\* and that query succeeds only for a session with role admin.
C19_ListItemsMatch == [][ListQueriesReturnMatches(SearchInputs)]_vars

\* the search terms without a character ILIKE reads as a wildcard
PlainSearchInputs ==
    {search \in SearchInputs :
        IsNone(search) \/ \A j \in DOMAIN Val(search) : Val(search)[j] \notin {"%", "_"}}

\* the statement of C19 for search terms without % and _
C19_ListItemsMatchPlainTerms == [][ListQueriesReturnMatches(PlainSearchInputs)]_vars

\* a filtered search returned the one application that matches both
C19_WitnessPlainTerms ==
    /\ response.op = "fetchAllApplications"
    /\ response.kind = "ok"
    /\ Len(response.items) = 1
    /\ response.items[1].id = 2
    /\ \E a \in Range(applications) : a.is_deleted

\* C20: in every committed state each application's status is one of
\* in-progress, closed, transferred: no sequence of operations,
\* updateApplication called with an arbitrary status string included,
\* commits an application whose status is outside these three values.
C20_StatusWithinEnum ==
    \A id \in DOMAIN applications : applications[id].status \in ApplicationStatuses

\* C21: in every reachable committed state an application with
\* is_deleted = true has deleted_at set, and no operation resets is_deleted
\* from true to false or clears deleted_at.
C21_DeletionIsStable ==
    /\ [](\A id \in DOMAIN applications :
             applications[id].is_deleted => ~IsNone(applications[id].deleted_at))
    /\ [][\A id \in DOMAIN applications :
             /\ id \in DOMAIN applications'
             /\ applications[id].is_deleted => applications'[id].is_deleted
             /\ ~IsNone(applications[id].deleted_at)
                   => ~IsNone(applications'[id].deleted_at)]_vars

\* an admin updated an application after it was soft-deleted, and it is
\* still deleted with its timestamp
C21_Witness ==
    /\ response.op = "updateApplication"
    /\ response.kind = "ok"
    /\ applications[response.id].is_deleted
    /\ ~IsNone(applications[response.id].deleted_at)
    /\ applications[response.id].status = <<"closed">>
    /\ appHistory # <<>>

\* the two login operations
LoginOperations == {"loginAdmin", "loginManager"}

\* C22: a session is established only by a successful login: loginAdmin with
\* a password that does not match the Admin record (or with no Admin record)
\* and loginManager with an unknown username or a wrong password fail with an
\* error and leave the caller's session exactly as it was; a successful
\* loginAdmin yields role admin and a successful loginManager role manager.
C22_SessionOnlyByLogin ==
    [][/\ (session' # session /\ ~IsNone(session'))
             => (response'.op \in LoginOperations /\ response'.kind = "ok")
       /\ (response'.op \in LoginOperations /\ response'.kind # "ok")
             => session' = session
       /\ (response'.op = "loginAdmin" /\ response'.kind = "ok")
             => (~IsNone(session') /\ Val(session').role = "admin")
       /\ (response'.op = "loginManager" /\ response'.kind = "ok")
             => (~IsNone(session') /\ Val(session').role = "manager")
       /\ \A p \in {AdminPassword, <<"pw1">>} :
             (/\ response'.op = "loginAdmin"
              /\ LoginAdmin(p)
              /\ (admins = <<>> \/ DecryptPassword(admins[1].password) # p))
                => response'.kind # "ok"
       /\ \A u \in Usernames, p \in {<<"pw1">>, <<"pw2">>} :
             (/\ response'.op = "loginManager"
              /\ LoginManager(u, p)
              /\ ~\E m \in managers : m.username = u /\ DecryptPassword(m.password) = p)
                => response'.kind # "ok"]_vars

\* a logged-in manager tried the admin login with a wrong password and is
\* still the manager
C22_Witness ==
    /\ response.op = "loginAdmin"
    /\ response.kind = "InvalidCredentials"
    /\ response.role = "manager"
    /\ ~IsNone(session)
    /\ Val(session).role = "manager"

\* the columns of a row an update never writes
UntrackedColumns == {"id", "notes", "is_deleted", "deleted_at", "deleted_by", "created_at"}

\* the step keeps, on the application of the response, every tracked field
\* the input does not carry and every column an update never writes, and
\* keeps every other application
KeepsWhatInputOmits(input) ==
    /\ \A field \in {"branch_id", "client_name", "phone_number", "product", "status"} :
          IsNone(input[field])
             => applications'[response'.id][field] = applications[response'.id][field]
    /\ \A column \in UntrackedColumns :
          applications'[response'.id][column] = applications[response'.id][column]
    /\ OthersUnchanged(response'.id)

\* C23: updateApplication changes only the tracked fields that are present
\* (non-null) in the input: every tracked field absent from the input keeps
\* its prior value, and id, notes, is_deleted, deleted_at and created_at are
\* never changed by an update; no other application changes.  Stated in the
\* contrapositive: a step that does not keep them is no updateApplication of
\* that input.
C23_UpdateTouchesOnlySupplied ==
    [][\A input \in FrameInputs, commit \in CommitOutcomes :
          (response'.id \in DOMAIN applications /\ ~KeepsWhatInputOmits(input))
             => ~UpdateApplication(input, commit)]_vars

\* an update that carried a client name and nothing else was applied to a
\* soft-deleted application with a note, a changed branch and a changed status
C23_Witness ==
    /\ response.op = "updateApplication"
    /\ response.kind = "ok"
    /\ applications[1].client_name = <<"P", "e", "t", "r", "o", "v">>
    /\ applications[1].branch_id = 2
    /\ applications[1].status = <<"closed">>
    /\ applications[1].is_deleted
    /\ applications[1].notes # <<>>
    /\ Len(appHistory) = 2
    /\ appHistory[2].updated_fields = <<"client_name">>

\* the audit entries a step appended
AppendedHistory == SubSeq(appHistory', Len(appHistory) + 1, Len(appHistory'))

\* C24: the diff compares the branch identifier by integer value: a supplied
\* branch id that denotes the same integer as the application's current
\* branch_id, whatever its string formatting (a leading zero, say), is not
\* reported as a change and produces no audit entry naming branch_id; a
\* supplied id denoting a different integer is reported, and the recorded new
\* value denotes the value stored on the entity.
C24_BranchComparedAsInteger ==
    [][\A input \in DiffInputs :
          (/\ ~IsNone(input.branch_id)
           /\ IsIntLiteral(Val(input.branch_id))
           /\ UpdateApplication(input, None)
           /\ response'.kind = "ok")
             => IF PyInt(Val(input.branch_id)) = applications[response'.id].branch_id
                THEN \A i \in DOMAIN AppendedHistory :
                        "branch_id" \notin Range(AppendedHistory[i].updated_fields)
                ELSE /\ Len(AppendedHistory) = 1
                     /\ "branch_id" \in Range(AppendedHistory[1].updated_fields)
                     /\ ColumnHolds(applications'[response'.id], "branch_id",
                                    AppendedHistory[1].new_values["branch_id"])]_vars

\* C25: in every mutation the access-guard check is the first step: a caller
\* with no session gets the authentication failure whatever the other
\* arguments are (a malformed, non-integer or unknown application id
\* included), before any id validation or lookup, and nothing in the store
\* changes; for updateApplication and deleteApplication as for the note
\* mutations.
C25_GuardComesFirst ==
    [][(IsNone(session) /\ response'.op \in ApplicationMutations)
          => /\ response'.kind = "Unauthenticated"
             /\ applications' = applications
             /\ appHistory' = appHistory]_vars

\* the keys of a sort list that name a column
RecognizedKeys(sort) ==
    IF IsNone(sort) \/ Val(sort) = <<>>
    THEN <<[field |-> "id", direction |-> "ASC"]>>
    ELSE SelectSeq(Val(sort), LAMBDA k : k.field \in {"id", "client_name"})

\* a comes strictly before b under one key
FieldBefore(a, b, key) ==
    IF key.field = "id"
    THEN IF key.direction = "DESC" THEN a.id > b.id ELSE a.id < b.id
    ELSE IF key.direction = "DESC" THEN StrLess(b.client_name, a.client_name)
         ELSE StrLess(a.client_name, b.client_name)

\* a comes strictly before b under the keys taken in their listed order:
\* the first key on which they differ puts a first
StrictlyBefore(a, b, keys) ==
    \E k \in DOMAIN keys :
        /\ \A j \in 1..(k - 1) : a[keys[j].field] = b[keys[j].field]
        /\ FieldBefore(a, b, keys[k])

\* the applications a list query of fetchAllApplications ranges over
LiveRows == {a \in Range(applications) : ~a.is_deleted}

\* the items are the page (first, offset) of the live rows in the order of
\* the keys: as many as the page holds, and the i-th of them has at most
\* offset + i - 1 rows strictly before it and at least offset + i rows not
\* after it
IsPageInOrder(items, keys, first, offset) ==
    /\ Len(items) = IF Cardinality(LiveRows) <= offset THEN 0
                    ELSE IF Cardinality(LiveRows) - offset < first
                         THEN Cardinality(LiveRows) - offset ELSE first
    /\ \A i \in DOMAIN items :
          /\ \E a \in LiveRows : a.id = items[i].id /\ a.client_name = items[i].client_name
          /\ Cardinality({a \in LiveRows : StrictlyBefore(a, items[i], keys)}) <= offset + i - 1
          /\ Cardinality({a \in LiveRows : ~StrictlyBefore(items[i], a, keys)}) >= offset + i
    /\ \A i, j \in DOMAIN items : i < j => items[i].id # items[j].id

\* C26: in a sort list an unrecognized field name is skipped without failing
\* the request and the recognized keys of the list are still applied in their
\* listed order; when no sort is supplied the result is ordered by id
\* ascending, so that two requests with the same filter, search, offset and
\* page size over the same store return the same items.
C26_SortSkipsUnknownFields ==
    [][\A sort \in SortListInputs, first \in PageSizes, offset \in Offsets :
          (/\ response'.op = "fetchAllApplications"
           /\ LoginRequired(session, RoleList(<<"admin", "manager">>)) = GuardPass
           /\ FetchAllApplications(None, sort, None, first, offset))
             => /\ response'.kind = "ok"
                /\ IsPageInOrder(response'.items, RecognizedKeys(sort), first, offset)
                /\ (IsNone(sort) \/ Val(sort) = <<>>)
                      => \A i, j \in DOMAIN response'.items :
                            i < j => response'.items[i].id < response'.items[j].id]_vars

\* two applications of one client name came back with the higher id first:
\* the first key ties and the second decides
C26_Witness ==
    /\ response.op = "fetchAllApplications"
    /\ response.kind = "ok"
    /\ Len(response.items) = 2
    /\ response.items[1].client_name = response.items[2].client_name
    /\ response.items[1].id = 2
    /\ response.items[2].id = 1

C27_WitnessAfterExpiry ==
    /\ response.op = "fetchApplicationById"
    /\ response.kind = "ok"
    /\ response.message = <<>>
    /\ applications[1].status = <<"closed">>
    /\ applications[1].notes # <<>>
    /\ response.items[1] = BuildApplicationResponse(applications[1], appHistory)
    /\ cache[<<"1">>] = Some(response.items[1])

\* the text an audit dict shows for a recorded value
AuditText(v) == IF v.t = "int" THEN PyStr(v.n) ELSE v.s

\* the audit entries of the application before the i-th that name the field
EarlierNaming(i, f) ==
    {j \in 1..(i - 1) :
        /\ appHistory[j].application_id = appHistory[i].application_id
        /\ f \in Range(appHistory[j].updated_fields)}

\* the value the chain of the application holds for the field just before
\* its i-th audit entry: the new value of the nearest earlier entry naming
\* the field, or the initial value of the column
ChainValueBefore(i, f) ==
    IF EarlierNaming(i, f) = {}
    THEN AuditText(TrackedValue(InitialApplications[appHistory[i].application_id], f))
    ELSE AuditText(appHistory[CHOOSE j \in EarlierNaming(i, f) :
                                 \A k \in EarlierNaming(i, f) : k <= j].new_values[f])

\* C28: the audit history of an application forms a consistent chain, also
\* when two updateApplication requests on it interleave. In commit order,
\* the previous value an entry records for a field is the new value of the
\* preceding entry naming the field (the initial value when there is
\* none), and the new value of the last entry naming a field is the value
\* the column holds.
C28_AuditChainConsistent ==
    \A i \in DOMAIN appHistory : \A f \in Range(appHistory[i].updated_fields) :
        /\ AuditText(appHistory[i].previous_values[f]) = ChainValueBefore(i, f)
        /\ LatestNaming(appHistory, "application_id", i, f)
              => ColumnHolds(applications[appHistory[i].application_id], f,
                             appHistory[i].new_values[f])

\* the error fetch_application raises for an application the caller may not see
ApplicationNotFound(id) ==
    <<"Application with ID ">> \o PyStr(id) \o <<" not found.">>

\* the request just answered is a mutation of a soft-deleted application by
\* a caller of the role
MutationOfDeletedBy(role) ==
    /\ ~IsNone(session)
    /\ Val(session).role = role
    /\ response'.op \in ApplicationMutations
    /\ response'.id \in DOMAIN applications
    /\ applications[response'.id].is_deleted

\* C29: a caller whose session role is manager cannot modify a soft-deleted
\* application. updateApplication, deleteApplication and the three note
\* mutations on an application with is_deleted = true fail with the
\* application-not-found error and leave the application, its notes and
\* its audit entries unchanged; the same calls by an admin find the
\* application.
C29_ManagerCannotModifyDeleted ==
    [][/\ MutationOfDeletedBy("manager") =>
             /\ response'.kind = "NotFound"
             /\ response'.message = ApplicationNotFound(response'.id)
             /\ applications' = applications
             /\ appHistory' = appHistory
       /\ MutationOfDeletedBy("admin") =>
             response'.message # ApplicationNotFound(response'.id)]_vars

\* a manager asked for a note on an application that is soft-deleted and
\* was told the application does not exist
C29_Witness ==
    /\ ~IsNone(session)
    /\ Val(session).role = "manager"
    /\ response.op = "addNoteToApplication"
    /\ response.kind = "NotFound"
    /\ response.message = ApplicationNotFound(1)
    /\ applications[1].is_deleted
    /\ applications[1].notes = <<>>

\* an admin added a note to an application that is soft-deleted
C29_WitnessAdmin ==
    /\ ~IsNone(session)
    /\ Val(session).role = "admin"
    /\ response.op = "addNoteToApplication"
    /\ response.kind = "ok"
    /\ applications[1].is_deleted
    /\ applications[1].notes # <<>>

\* the sessions the session store holds
HeldSessions == {session, otherSession}

\* the session is one of a manager and passes the guard of the operations
\* a manager may call
ManagerSessionPasses(s) ==
    /\ ~IsNone(s)
    /\ Val(s).role = "manager"
    /\ LoginRequired(s, NoteMutationRoles) = GuardPass

\* C30: in every reachable state an active session with role manager refers
\* to a Manager record that still exists: after an admin's deleteManager(m)
\* succeeds, a session established earlier by m no longer passes the access
\* guard of the operations a manager may call.
C30_ManagerSessionHasRecord ==
    \A s \in HeldSessions :
        ManagerSessionPasses(s) => \E m \in managers : m.id = Val(s).id

====
